---- MODULE Spec2Model ----
(***************************************************************************)
(* Patchwork compiler: the code generator of crates/patchwork-compiler     *)
(* (src/codegen.rs), which lowers a Program AST to JavaScript text.        *)
(*                                                                         *)
(* Text is a sequence of one-character strings, so that escaping, quoting  *)
(* and concatenation are checked character by character.  The backquote    *)
(* character is written "bq" throughout (the parser of this language gives *)
(* a backquote a meaning of its own, even inside a string).                *)
(***************************************************************************)
EXTENDS Integers, Sequences, FiniteSets, TLC

VARIABLES gen, program, result, calls, source, lexer, tokens, parser, parsed,
          interp, outcome, proxy

\* The state of the front end: the source handed to parse, the lexer over it,
\* the tokens the parser has pulled, and what parse returned.
front == <<source, lexer, tokens, parser, parsed>>

\* The state of the run time: one Interpreter, the last call made on it and
\* what it returned, and the ACP proxy with its requests.
runtime == <<interp, outcome, proxy>>

vars == <<gen, program, result, calls, source, lexer, tokens, parser, parsed,
          interp, outcome, proxy>>

-----------------------------------------------------------------------------
(* Text helpers.                                                           *)

\* The concatenation of a sequence of texts.
RECURSIVE Concat(_)
Concat(ss) == IF ss = <<>> THEN <<>> ELSE Head(ss) \o Concat(Tail(ss))

\* Whether text s starts with text p.
StartsWith(s, p) == Len(p) <= Len(s) /\ SubSeq(s, 1, Len(p)) = p

\* Whether text s ends with text p.
EndsWith(s, p) == Len(p) <= Len(s) /\ SubSeq(s, Len(s) - Len(p) + 1, Len(s)) = p

\* Whether text p occurs in text s.
Contains(s, p) == \E i \in 1..(Len(s) - Len(p) + 1) : SubSeq(s, i, i + Len(p) - 1) = p

\* str::replace(pat, rep): every non-overlapping occurrence of pat, left to right.
RECURSIVE Replace(_, _, _)
Replace(s, pat, rep) ==
    IF s = <<>> THEN <<>>
    ELSE IF StartsWith(s, pat) THEN rep \o Replace(SubSeq(s, Len(pat) + 1, Len(s)), pat, rep)
    ELSE <<Head(s)>> \o Replace(Tail(s), pat, rep)

\* All sequences over S of length at most n.
RECURSIVE SeqUpTo(_, _)
SeqUpTo(S, n) ==
    IF n = 0 THEN {<<>>}
    ELSE LET R == SeqUpTo(S, n - 1) IN R \cup {Append(r, x) : r \in R, x \in S}

-----------------------------------------------------------------------------
(* The AST, as codegen.rs matches on it.  An Option is a sequence of       *)
(* length 0 (None) or 1 (Some).                                            *)

None == <<>>
Some(x) == <<x>>

Identifier(name) == [kind |-> "Identifier", name |-> name]
Number(n) == [kind |-> "Number", n |-> n]
StringLit(parts) == [kind |-> "String", parts |-> parts]
Text(t) == [kind |-> "Text", text |-> t]
Interpolation(e) == [kind |-> "Interpolation", expr |-> e]
ArrayLit(items) == [kind |-> "Array", items |-> items]
Field(key, value) == [key |-> key, value |-> value]
ObjectLit(fields) == [kind |-> "Object", fields |-> fields]
Binary(op, l, r) == [kind |-> "Binary", op |-> op, left |-> l, right |-> r]
Unary(op, e) == [kind |-> "Unary", op |-> op, operand |-> e]
Call(callee, args) == [kind |-> "Call", callee |-> callee, args |-> args]
Member(object, field) == [kind |-> "Member", object |-> object, field |-> field]
Index(object, index) == [kind |-> "Index", object |-> object, index |-> index]
Paren(e) == [kind |-> "Paren", inner |-> e]
PostIncrement(e) == [kind |-> "PostIncrement", operand |-> e]
PostDecrement(e) == [kind |-> "PostDecrement", operand |-> e]
Await(e) == [kind |-> "Await", inner |-> e]
ArgLiteral(lit) == [kind |-> "Literal", lit |-> lit]
ArgString(parts) == [kind |-> "String", parts |-> parts]
BareCommand(name, args) == [kind |-> "BareCommand", name |-> name, args |-> args]
CommandSubst(cmd) == [kind |-> "CommandSubst", cmd |-> cmd]
ShellChain(kind, l, r) == [kind |-> kind, left |-> l, right |-> r]
ShellRedirect(cmd, op, target) ==
    [kind |-> "ShellRedirect", command |-> cmd, op |-> op, target |-> target]
Think(items) == [kind |-> "Think", items |-> items]
Ask(items) == [kind |-> "Ask", items |-> items]
Do(block) == [kind |-> "Do", block |-> block]

PatIdentifier(name) == [kind |-> "Identifier", name |-> name]
PatIgnore == [kind |-> "Ignore"]
PatObject == [kind |-> "Object"]
PatArray == [kind |-> "Array"]

VarDecl(pattern, init) == [kind |-> "VarDecl", pattern |-> pattern, init |-> init]
ExprStmt(e) == [kind |-> "Expr", expr |-> e]
If(c, t, e) == [kind |-> "If", condition |-> c, then_block |-> t, else_block |-> e]
While(c, b) == [kind |-> "While", condition |-> c, body |-> b]
ForIn(v, it, b) == [kind |-> "ForIn", var |-> v, iter |-> it, body |-> b]
Return(e) == [kind |-> "Return", expr |-> e]
Break == [kind |-> "Break"]
Succeed == [kind |-> "Succeed"]
TypeDeclStmt == [kind |-> "TypeDecl"]

Worker(name, params, body) ==
    [kind |-> "Worker", name |-> name, params |-> params, body |-> body]
Function(name, exported, params, body) ==
    [kind |-> "Function", name |-> name, is_exported |-> exported,
     params |-> params, body |-> body]
Skill(name, params, body) ==
    [kind |-> "Skill", name |-> name, params |-> params, body |-> body]
ImportItem == [kind |-> "Import"]
TraitItem == [kind |-> "Trait"]
TypeItem == [kind |-> "Type"]

BinOps == {"Add", "Sub", "Mul", "Div", "Eq", "NotEq", "Lt", "Gt", "And", "Or",
           "Assign", "Pipe", "Range"}
UnOps == {"Not", "Neg", "Throw"}
RedirectOps == {"Out", "Append", "In", "ErrOut", "ErrToOut"}
ShellChainKinds == {"ShellPipe", "ShellAnd", "ShellOr"}

-----------------------------------------------------------------------------
(* The generator.  Each generate_* method is an operator of the indentation *)
(* level it is called at (self.indent) and the AST node; its value is the  *)
(* effect of the call: the text it appends to self.output, the error a ?   *)
(* propagates out of it (NoErr: it returned Ok) and the indentation level  *)
(* it leaves.  A method body is the sequence Cat of its steps in program   *)
(* order: after the first failing step nothing more is appended and the    *)
(* level stays where the failing step left it.                             *)

NoErr == [kind |-> "none", msg |-> ""]
Unsupported(msg) == [kind |-> "Unsupported", msg |-> msg]

\* self.output.push_str(s) / push(c) / write!: appends s, cannot fail.
Lit(s) == [out |-> s, err |-> NoErr, indent |-> 0]

\* return Err(e) at level ind.
Fail(ind, e) == [out |-> <<>>, err |-> e, indent |-> ind]

\* The steps rs[i..] run in order at level ind, each followed by the ? operator.
RECURSIVE CatFrom(_, _, _)
CatFrom(ind, rs, i) ==
    IF i > Len(rs) THEN [out |-> <<>>, err |-> NoErr, indent |-> ind]
    ELSE IF rs[i].err # NoErr THEN rs[i]
    ELSE [CatFrom(ind, rs, i + 1) EXCEPT !.out = rs[i].out \o @]

\* The steps rs run in order at level ind (rs is evaluated once).
Cat(ind, rs) == CHOOSE r \in {CatFrom(ind, v, 1) : v \in {rs}} : TRUE

NewGenerator == [indent |-> 0, output |-> <<>>]

RECURSIVE Spaces(_)
Spaces(n) == IF n = 0 THEN <<>> ELSE <<" "," ">> \o Spaces(n - 1)

write_indent(ind) == Lit(Spaces(ind))

\* escape_string with the backslash replaced last instead of first.
escape_string_backslash_last(s) ==
    Replace(Replace(Replace(Replace(Replace(s,
        <<"\"">>, <<"\\","\"">>),
        <<"\n">>, <<"\\","n">>),
        <<"\r">>, <<"\\","r">>),
        <<"\t">>, <<"\\","t">>),
        <<"\\">>, <<"\\","\\">>)

escape_string(s) ==
    Replace(Replace(Replace(Replace(Replace(s,
        <<"\\">>, <<"\\","\\">>),
        <<"\"">>, <<"\\","\"">>),
        <<"\n">>, <<"\\","n">>),
        <<"\r">>, <<"\\","r">>),
        <<"\t">>, <<"\\","t">>)

escape_template_literal(s) ==
    Replace(Replace(Replace(s,
        <<"\\">>, <<"\\","\\">>),
        <<"bq">>, <<"\\","bq">>),
        <<"$","{">>, <<"\\","$","{">>)

BinOpStr(op) ==
    CASE op = "Add" -> <<" ","+"," ">>
      [] op = "Sub" -> <<" ","-"," ">>
      [] op = "Mul" -> <<" ","*"," ">>
      [] op = "Div" -> <<" ","/"," ">>
      [] op = "Eq" -> <<" ","=","=","="," ">>
      [] op = "NotEq" -> <<" ","!","=","="," ">>
      [] op = "Lt" -> <<" ","<"," ">>
      [] op = "Gt" -> <<" ",">"," ">>
      [] op = "And" -> <<" ","&","&"," ">>
      [] op = "Or" -> <<" ","|","|"," ">>
      [] op = "Assign" -> <<" ","="," ">>

\* RedirectOpStr with the append operator written as the output operator.
RedirectOpStr_append_as_out(op) ==
    CASE op \in {"Out", "Append"} -> <<">">>
      [] op = "In" -> <<"<">>
      [] op = "ErrOut" -> <<"2",">">>
      [] op = "ErrToOut" -> <<"2",">","&","1">>

RedirectOpStr(op) ==
    CASE op = "Out" -> <<">">>
      [] op = "Append" -> <<">",">">>
      [] op = "In" -> <<"<">>
      [] op = "ErrOut" -> <<"2",">">>
      [] op = "ErrToOut" -> <<"2",">","&","1">>

RECURSIVE generate_expr(_, _)
RECURSIVE generate_statement(_, _)
RECURSIVE BlockFrom(_, _, _)
RECURSIVE ExprListFrom(_, _, _)
RECURSIVE ObjectFieldsFrom(_, _, _)
RECURSIVE StringLiteralParts(_, _, _)
RECURSIVE ShellCommandParts(_, _, _)
RECURSIVE ShellCommandArgs(_, _, _)
RECURSIVE CommandSubstParts(_, _, _)
RECURSIVE CommandSubstArgs(_, _, _)
RECURSIVE ShellExprForPipeParts(_, _, _)
RECURSIVE ShellExprForPipeArgs(_, _, _)

\* The separator written before the i-th element of a comma-separated list.
Comma(i) == IF i > 1 THEN Lit(<<","," ">>) ELSE Lit(<<>>)

\* The comma-separated loop over items (array items, call arguments), from index i.
ExprListFrom(ind, items, i) ==
    IF i > Len(items) THEN Lit(<<>>)
    ELSE Cat(ind, <<Comma(i), generate_expr(ind, items[i]), ExprListFrom(ind, items, i + 1)>>)

\* The loop over the fields of an object literal, from index i.
ObjectFieldsFrom(ind, fields, i) ==
    IF i > Len(fields) THEN Lit(<<>>)
    ELSE Cat(ind, <<Comma(i), Lit(fields[i].key),
                    IF fields[i].value # None
                    THEN Cat(ind, <<Lit(<<":"," ">>), generate_expr(ind, fields[i].value[1])>>)
                    ELSE Lit(<<>>),
                    ObjectFieldsFrom(ind, fields, i + 1)>>)

\* The loop over the parts of a template literal, from index i.
StringLiteralParts(ind, parts, i) ==
    IF i > Len(parts) THEN Lit(<<>>)
    ELSE Cat(ind, <<IF parts[i].kind = "Text"
                    THEN Lit(escape_template_literal(parts[i].text))
                    ELSE Cat(ind, <<Lit(<<"$","{">>), generate_expr(ind, parts[i].expr),
                                    Lit(<<"}">>)>>),
                    StringLiteralParts(ind, parts, i + 1)>>)

\* generate_string_literal taking the quoted form whenever the first part is
\* a Text, whatever follows it.
generate_string_literal_first_text(ind, s) ==
    IF Len(s.parts) >= 1 /\ s.parts[1].kind = "Text"
    THEN Cat(ind, <<Lit(<<"\"">>), Lit(escape_string(s.parts[1].text)), Lit(<<"\"">>)>>)
    ELSE Cat(ind, <<Lit(<<"bq">>), StringLiteralParts(ind, s.parts, 1), Lit(<<"bq">>)>>)

generate_string_literal(ind, s) ==
    IF Len(s.parts) = 1 /\ s.parts[1].kind = "Text"
    THEN Cat(ind, <<Lit(<<"\"">>), Lit(escape_string(s.parts[1].text)), Lit(<<"\"">>)>>)
    ELSE Cat(ind, <<Lit(<<"bq">>), StringLiteralParts(ind, s.parts, 1), Lit(<<"bq">>)>>)

\* generate_binary_op with Pipe and Range written as operators of the
\* output.
generate_binary_op_all_lowered(ind, op, left, right) ==
    Cat(ind, <<generate_expr(ind, left),
               IF op = "Pipe" THEN Lit(<<" ","|"," ">>)
               ELSE IF op = "Range" THEN Lit(<<" ",".",".","."," ">>)
               ELSE Lit(BinOpStr(op)),
               generate_expr(ind, right)>>)

generate_binary_op(ind, op, left, right) ==
    Cat(ind, <<generate_expr(ind, left),
               IF op = "Pipe"
               THEN Fail(ind, Unsupported("Use ShellPipe expression for shell pipes"))
               ELSE IF op = "Range"
               THEN Fail(ind, Unsupported("Range operator not yet supported"))
               ELSE Lit(BinOpStr(op)),
               generate_expr(ind, right)>>)

\* generate_unary_op with the operand of Throw raised as it is.
generate_unary_op_throw_operand(ind, op, operand) ==
    Cat(ind, <<Lit(IF op = "Throw" THEN <<"t","h","r","o","w"," ">> ELSE IF op = "Not" THEN <<"!">> ELSE <<"-">>),
               generate_expr(ind, operand)>>)

generate_unary_op(ind, op, operand) ==
    IF op = "Throw"
    THEN Cat(ind, <<Lit(<<"t","h","r","o","w"," ","n","e","w"," ","E","r","r","o","r","(","S","t","r","i","n","g","(">>), generate_expr(ind, operand),
                    Lit(<<")",")">>)>>)
    ELSE Cat(ind, <<Lit(IF op = "Not" THEN <<"!">> ELSE <<"-">>), generate_expr(ind, operand)>>)

\* ShellCommandParts with the text of a part written as it is, not escaped.
ShellCommandParts_unescaped(ind, parts, i) ==
    IF i > Len(parts) THEN Lit(<<>>)
    ELSE Cat(ind, <<IF parts[i].kind = "Text"
                    THEN Lit(parts[i].text)
                    ELSE Cat(ind, <<Lit(<<"$","{">>), generate_expr(ind, parts[i].expr),
                                    Lit(<<"}">>)>>),
                    ShellCommandParts(ind, parts, i + 1)>>)

\* The parts of a string argument, as generate_shell_command writes them.
ShellCommandParts(ind, parts, i) ==
    IF i > Len(parts) THEN Lit(<<>>)
    ELSE Cat(ind, <<IF parts[i].kind = "Text"
                    THEN Lit(escape_template_literal(parts[i].text))
                    ELSE Cat(ind, <<Lit(<<"$","{">>), generate_expr(ind, parts[i].expr),
                                    Lit(<<"}">>)>>),
                    ShellCommandParts(ind, parts, i + 1)>>)

\* The arguments of a command, as generate_shell_command writes them.
ShellCommandArgs(ind, args, i) ==
    IF i > Len(args) THEN Lit(<<>>)
    ELSE Cat(ind, <<Lit(<<" ">>),
                    IF args[i].kind = "Literal" THEN Lit(args[i].lit)
                    ELSE ShellCommandParts(ind, args[i].parts, 1),
                    ShellCommandArgs(ind, args, i + 1)>>)

generate_shell_command(ind, name, args) ==
    Cat(ind, <<Lit(<<"a","w","a","i","t"," ","$","s","h","e","l","l","(">>), Lit(<<"bq">>), Lit(name),
               ShellCommandArgs(ind, args, 1), Lit(<<"bq">>), Lit(<<")">>)>>)

\* The parts of a string argument, as generate_command_subst writes them.
CommandSubstParts(ind, parts, i) ==
    IF i > Len(parts) THEN Lit(<<>>)
    ELSE Cat(ind, <<IF parts[i].kind = "Text"
                    THEN Lit(escape_template_literal(parts[i].text))
                    ELSE Cat(ind, <<Lit(<<"$","{">>), generate_expr(ind, parts[i].expr),
                                    Lit(<<"}">>)>>),
                    CommandSubstParts(ind, parts, i + 1)>>)

\* The arguments of a command, as generate_command_subst writes them.
CommandSubstArgs(ind, args, i) ==
    IF i > Len(args) THEN Lit(<<>>)
    ELSE Cat(ind, <<Lit(<<" ">>),
                    IF args[i].kind = "Literal" THEN Lit(args[i].lit)
                    ELSE CommandSubstParts(ind, args[i].parts, 1),
                    CommandSubstArgs(ind, args, i + 1)>>)

\* generate_command_subst without the capture flag.
generate_command_subst_uncaptured(ind, cmd) ==
    Cat(ind, <<Lit(<<"a","w","a","i","t"," ","$","s","h","e","l","l","(">>),
               IF cmd.kind = "BareCommand"
               THEN Cat(ind, <<Lit(<<"bq">>), Lit(cmd.name), CommandSubstArgs(ind, cmd.args, 1),
                               Lit(<<"bq">>)>>)
               ELSE generate_expr(ind, cmd),
               Lit(<<")">>)>>)

generate_command_subst(ind, cmd) ==
    Cat(ind, <<Lit(<<"a","w","a","i","t"," ","$","s","h","e","l","l","(">>),
               IF cmd.kind = "BareCommand"
               THEN Cat(ind, <<Lit(<<"bq">>), Lit(cmd.name), CommandSubstArgs(ind, cmd.args, 1),
                               Lit(<<"bq">>)>>)
               ELSE generate_expr(ind, cmd),
               Lit(<<","," ","{","c","a","p","t","u","r","e",":"," ","t","r","u","e","}",")">>)>>)

\* ShellExprForPipeParts with the text of a part written as it is, not escaped.
ShellExprForPipeParts_unescaped(ind, parts, i) ==
    IF i > Len(parts) THEN Lit(<<>>)
    ELSE Cat(ind, <<IF parts[i].kind = "Text"
                    THEN Lit(parts[i].text)
                    ELSE Cat(ind, <<Lit(<<"$","{">>), generate_expr(ind, parts[i].expr),
                                    Lit(<<"}">>)>>),
                    ShellExprForPipeParts(ind, parts, i + 1)>>)

\* The parts of a string argument, as generate_shell_expr_for_pipe writes them.
ShellExprForPipeParts(ind, parts, i) ==
    IF i > Len(parts) THEN Lit(<<>>)
    ELSE Cat(ind, <<IF parts[i].kind = "Text"
                    THEN Lit(escape_template_literal(parts[i].text))
                    ELSE Cat(ind, <<Lit(<<"$","{">>), generate_expr(ind, parts[i].expr),
                                    Lit(<<"}">>)>>),
                    ShellExprForPipeParts(ind, parts, i + 1)>>)

\* The arguments of a command, as generate_shell_expr_for_pipe writes them.
ShellExprForPipeArgs(ind, args, i) ==
    IF i > Len(args) THEN Lit(<<>>)
    ELSE Cat(ind, <<Lit(<<" ">>),
                    IF args[i].kind = "Literal" THEN Lit(args[i].lit)
                    ELSE ShellExprForPipeParts(ind, args[i].parts, 1),
                    ShellExprForPipeArgs(ind, args, i + 1)>>)

generate_shell_expr_for_pipe(ind, expr) ==
    IF expr.kind = "BareCommand"
    THEN Cat(ind, <<Lit(<<"bq">>), Lit(expr.name), ShellExprForPipeArgs(ind, expr.args, 1),
                    Lit(<<"bq">>)>>)
    ELSE generate_expr(ind, expr)

generate_shell_pipe(ind, left, right) ==
    Cat(ind, <<Lit(<<"a","w","a","i","t"," ","$","s","h","e","l","l","P","i","p","e","(","[">>), generate_shell_expr_for_pipe(ind, left),
               Lit(<<","," ">>), generate_shell_expr_for_pipe(ind, right), Lit(<<"]",")">>)>>)

generate_shell_and(ind, left, right) ==
    Cat(ind, <<Lit(<<"a","w","a","i","t"," ","$","s","h","e","l","l","A","n","d","(","[">>), generate_shell_expr_for_pipe(ind, left),
               Lit(<<","," ">>), generate_shell_expr_for_pipe(ind, right), Lit(<<"]",")">>)>>)

generate_shell_or(ind, left, right) ==
    Cat(ind, <<Lit(<<"a","w","a","i","t"," ","$","s","h","e","l","l","O","r","(","[">>), generate_shell_expr_for_pipe(ind, left),
               Lit(<<","," ">>), generate_shell_expr_for_pipe(ind, right), Lit(<<"]",")">>)>>)

generate_shell_redirect(ind, command, op, target) ==
    Cat(ind, <<Lit(<<"a","w","a","i","t"," ","$","s","h","e","l","l","R","e","d","i","r","e","c","t","(">>), generate_shell_expr_for_pipe(ind, command),
               Lit(<<","," ","'">>), Lit(RedirectOpStr(op)), Lit(<<"'",","," ">>),
               generate_expr(ind, target), Lit(<<")">>)>>)

generate_expr(ind, expr) ==
    CASE expr.kind = "Identifier" -> Lit(expr.name)
      [] expr.kind = "Number" -> Lit(expr.n)
      [] expr.kind = "String" -> generate_string_literal(ind, expr)
      [] expr.kind = "True" -> Lit(<<"t","r","u","e">>)
      [] expr.kind = "False" -> Lit(<<"f","a","l","s","e">>)
      [] expr.kind = "Array" ->
            Cat(ind, <<Lit(<<"[">>), ExprListFrom(ind, expr.items, 1), Lit(<<"]">>)>>)
      [] expr.kind = "Object" ->
            Cat(ind, <<Lit(<<"{"," ">>), ObjectFieldsFrom(ind, expr.fields, 1), Lit(<<" ","}">>)>>)
      [] expr.kind = "Binary" -> generate_binary_op(ind, expr.op, expr.left, expr.right)
      [] expr.kind = "Unary" -> generate_unary_op(ind, expr.op, expr.operand)
      [] expr.kind = "Call" ->
            Cat(ind, <<generate_expr(ind, expr.callee), Lit(<<"(">>),
                       ExprListFrom(ind, expr.args, 1), Lit(<<")">>)>>)
      [] expr.kind = "Member" ->
            Cat(ind, <<generate_expr(ind, expr.object), Lit(<<".">>), Lit(expr.field)>>)
      [] expr.kind = "Index" ->
            Cat(ind, <<generate_expr(ind, expr.object), Lit(<<"[">>),
                       generate_expr(ind, expr.index), Lit(<<"]">>)>>)
      [] expr.kind = "Paren" ->
            Cat(ind, <<Lit(<<"(">>), generate_expr(ind, expr.inner), Lit(<<")">>)>>)
      [] expr.kind = "PostIncrement" ->
            Cat(ind, <<generate_expr(ind, expr.operand), Lit(<<"+","+">>)>>)
      [] expr.kind = "PostDecrement" ->
            Cat(ind, <<generate_expr(ind, expr.operand), Lit(<<"-","-">>)>>)
      [] expr.kind = "Await" -> Cat(ind, <<Lit(<<"a","w","a","i","t"," ">>), generate_expr(ind, expr.inner)>>)
      [] expr.kind = "BareCommand" -> generate_shell_command(ind, expr.name, expr.args)
      [] expr.kind = "CommandSubst" -> generate_command_subst(ind, expr.cmd)
      [] expr.kind = "ShellPipe" -> generate_shell_pipe(ind, expr.left, expr.right)
      [] expr.kind = "ShellAnd" -> generate_shell_and(ind, expr.left, expr.right)
      [] expr.kind = "ShellOr" -> generate_shell_or(ind, expr.left, expr.right)
      [] expr.kind = "ShellRedirect" ->
            generate_shell_redirect(ind, expr.command, expr.op, expr.target)
      [] expr.kind \in {"Think", "Ask"} ->
            Fail(ind, Unsupported("Prompt blocks not yet supported in Phase 2"))
      [] expr.kind = "Do" ->
            Fail(ind, Unsupported("Do expressions not yet supported in Phase 2"))

\* generate_var_decl with the destructuring patterns skipped instead of refused.
generate_var_decl_skipping(ind, pattern, init) ==
    CASE pattern.kind = "Identifier" ->
            Cat(ind, <<Lit(<<"l","e","t"," ">>), Lit(pattern.name),
                       IF init # None
                       THEN Cat(ind, <<Lit(<<" ","="," ">>), generate_expr(ind, init[1])>>)
                       ELSE Lit(<<>>),
                       Lit(<<";">>)>>)
      [] pattern.kind = "Ignore" ->
            IF init # None
            THEN Cat(ind, <<generate_expr(ind, init[1]), Lit(<<";">>)>>)
            ELSE Lit(<<>>)
      [] pattern.kind \in {"Object", "Array"} -> Lit(<<>>)

generate_var_decl(ind, pattern, init) ==
    CASE pattern.kind = "Identifier" ->
            Cat(ind, <<Lit(<<"l","e","t"," ">>), Lit(pattern.name),
                       IF init # None
                       THEN Cat(ind, <<Lit(<<" ","="," ">>), generate_expr(ind, init[1])>>)
                       ELSE Lit(<<>>),
                       Lit(<<";">>)>>)
      [] pattern.kind = "Ignore" ->
            IF init # None
            THEN Cat(ind, <<generate_expr(ind, init[1]), Lit(<<";">>)>>)
            ELSE Lit(<<>>)
      [] pattern.kind = "Object" ->
            Fail(ind, Unsupported("Object destructuring not yet supported in Phase 2"))
      [] pattern.kind = "Array" ->
            Fail(ind, Unsupported("Array destructuring not yet supported in Phase 2"))

\* generate_block: every statement on a line of its own at level ind.
BlockFrom(ind, statements, i) ==
    IF i > Len(statements) THEN Lit(<<>>)
    ELSE Cat(ind, <<write_indent(ind), generate_statement(ind, statements[i]), Lit(<<"\n">>),
                    BlockFrom(ind, statements, i + 1)>>)

generate_block(ind, block) == BlockFrom(ind, block, 1)

generate_if(ind, condition, then_block, else_block) ==
    Cat(ind, <<Lit(<<"i","f"," ","(">>), generate_expr(ind, condition), Lit(<<")"," ","{","\n">>),
               generate_block(ind + 1, then_block),
               write_indent(ind), Lit(<<"}">>),
               IF else_block # None
               THEN Cat(ind, <<Lit(<<" ","e","l","s","e"," ","{","\n">>), generate_block(ind + 1, else_block[1]),
                               write_indent(ind), Lit(<<"}">>)>>)
               ELSE Lit(<<>>)>>)

generate_while(ind, condition, body) ==
    Cat(ind, <<Lit(<<"w","h","i","l","e"," ","(">>), generate_expr(ind, condition), Lit(<<")"," ","{","\n">>),
               generate_block(ind + 1, body),
               write_indent(ind), Lit(<<"}">>)>>)

generate_for_in(ind, var, iter, body) ==
    Cat(ind, <<Lit(<<"f","o","r"," ","(","l","e","t"," ">>), Lit(var), Lit(<<" ","o","f"," ">>), generate_expr(ind, iter),
               Lit(<<")"," ","{","\n">>),
               generate_block(ind + 1, body),
               write_indent(ind), Lit(<<"}">>)>>)

generate_statement(ind, stmt) ==
    CASE stmt.kind = "VarDecl" -> generate_var_decl(ind, stmt.pattern, stmt.init)
      [] stmt.kind = "Expr" -> Cat(ind, <<generate_expr(ind, stmt.expr), Lit(<<";">>)>>)
      [] stmt.kind = "If" ->
            generate_if(ind, stmt.condition, stmt.then_block, stmt.else_block)
      [] stmt.kind = "While" -> generate_while(ind, stmt.condition, stmt.body)
      [] stmt.kind = "ForIn" -> generate_for_in(ind, stmt.var, stmt.iter, stmt.body)
      [] stmt.kind = "Return" ->
            Cat(ind, <<Lit(<<"r","e","t","u","r","n">>),
                       IF stmt.expr # None
                       THEN Cat(ind, <<Lit(<<" ">>), generate_expr(ind, stmt.expr[1])>>)
                       ELSE Lit(<<>>),
                       Lit(<<";">>)>>)
      [] stmt.kind = "Break" -> Lit(<<"b","r","e","a","k",";">>)
      [] stmt.kind = "Succeed" -> Lit(<<"/","/"," ","s","u","c","c","e","e","d"," ","s","t","a","t","e","m","e","n","t"," ","(","n","o","t"," ","y","e","t"," ","i","m","p","l","e","m","e","n","t","e","d",")">>)
      [] stmt.kind = "TypeDecl" -> Lit(<<>>)

\* The loop over params, from index i.
RECURSIVE ParamsFrom(_, _)
ParamsFrom(params, i) ==
    IF i > Len(params) THEN <<>>
    ELSE (IF i > 1 THEN <<","," ">> ELSE <<>>) \o params[i] \o ParamsFrom(params, i + 1)

generate_params(ind, params) ==
    Cat(ind, <<Lit(<<"(">>), Lit(ParamsFrom(params, 1)), Lit(<<")">>)>>)

generate_worker(ind, worker) ==
    Cat(ind, <<Lit(<<"e","x","p","o","r","t"," ","f","u","n","c","t","i","o","n"," ">>), Lit(worker.name),
               generate_params(ind, worker.params), Lit(<<" ","{","\n">>),
               generate_block(ind + 1, worker.body),
               Lit(<<"}","\n">>)>>)

\* generate_function with the export marker written for every function, as
\* generate_worker writes it.
generate_function_always_exported(ind, func) ==
    Cat(ind, <<Lit(<<"e","x","p","o","r","t"," ","f","u","n","c","t","i","o","n"," ">>), Lit(func.name),
               generate_params(ind, func.params), Lit(<<" ","{","\n">>),
               generate_block(ind + 1, func.body),
               Lit(<<"}","\n">>)>>)

generate_function(ind, func) ==
    Cat(ind, <<Lit(IF func.is_exported THEN <<"e","x","p","o","r","t"," ">> ELSE <<>>),
               Lit(<<"f","u","n","c","t","i","o","n"," ">>), Lit(func.name),
               generate_params(ind, func.params), Lit(<<" ","{","\n">>),
               generate_block(ind + 1, func.body),
               Lit(<<"}","\n">>)>>)

\* The loop of generate with the items that are not lowered refused.
RECURSIVE ItemsFrom_refusing_others(_, _, _)
ItemsFrom_refusing_others(ind, items, i) ==
    IF i > Len(items) THEN Lit(<<>>)
    ELSE Cat(ind, <<CASE items[i].kind = "Worker" ->
                            Cat(ind, <<generate_worker(ind, items[i]), Lit(<<"\n">>)>>)
                      [] items[i].kind = "Function" ->
                            Cat(ind, <<generate_function(ind, items[i]), Lit(<<"\n">>)>>)
                      [] items[i].kind \in {"Import", "Skill", "Trait", "Type"} ->
                            Fail(ind, Unsupported("Item not yet supported in Phase 2")),
                    ItemsFrom_refusing_others(ind, items, i + 1)>>)

\* The loop of generate over the items of the program, from index i.
RECURSIVE ItemsFrom(_, _, _)
ItemsFrom(ind, items, i) ==
    IF i > Len(items) THEN Lit(<<>>)
    ELSE Cat(ind, <<CASE items[i].kind = "Worker" ->
                            Cat(ind, <<generate_worker(ind, items[i]), Lit(<<"\n">>)>>)
                      [] items[i].kind = "Function" ->
                            Cat(ind, <<generate_function(ind, items[i]), Lit(<<"\n">>)>>)
                      [] items[i].kind \in {"Import", "Skill", "Trait", "Type"} ->
                            Lit(<<>>),
                    ItemsFrom(ind, items, i + 1)>>)

\* generate(&mut self, prog): the generator after the call (self) and what the
\* call returns (ret).  Ok takes the buffer (mem::take); an error leaves the
\* fields as the failing step left them.
generate(self, prog) ==
    LET r == Cat(self.indent, <<ItemsFrom(self.indent, prog.items, 1)>>)
    IN IF r.err # NoErr
       THEN [self |-> [indent |-> r.indent, output |-> self.output \o r.out],
             ret |-> [tag |-> "Err", text |-> <<>>, err |-> r.err]]
       ELSE [self |-> [indent |-> r.indent, output |-> <<>>],
             ret |-> [tag |-> "Ok", text |-> self.output \o r.out, err |-> NoErr]]

Program(items) == [items |-> items]

-----------------------------------------------------------------------------
(* The state: one CodeGenerator instance (gen), the Program of the last    *)
(* generate call on it, what that call returned, and the number of calls   *)
(* made on the instance.                                                   *)

NoResult == [tag |-> "None", text |-> <<>>, err |-> NoErr]

\* No parse call is in progress.
NoSource == <<"closed">>
NoLexer == [pos |-> 0, stack |-> <<>>, pending |-> "none"]
NoParse == [tag |-> "None"]

\* The run time: the interpreter's control state and values, and what a
\* call on the interpreter returns.
Value_Null == [kind |-> "Null"]
Value_String(s) == [kind |-> "String", s |-> s]

ControlState_Eval == [tag |-> "Eval"]
ControlState_Yield(op, prompt) == [tag |-> "Yield", op |-> op, prompt |-> prompt]
ControlState_Return(v) == [tag |-> "Return", value |-> v]
ControlState_Throw(v) == [tag |-> "Throw", value |-> v]

is_terminal(state) == state.tag \in {"Return", "Throw"}
is_yield(state) == state.tag = "Yield"

Error_Parse(msg) == [kind |-> "Parse", msg |-> msg]
Error_Runtime(msg) == [kind |-> "Runtime", msg |-> msg]
Error_InvalidResume == [kind |-> "InvalidResume"]

\* Interpreter::new(): an interpreter in the Eval state.
Interpreter_new == [state |-> ControlState_Eval]

\* No call has been made on the interpreter since it was created.
NoCall == [op |-> "none", code |-> <<>>, ret |-> [tag |-> "None"], evaluated |-> FALSE]

SessionIds == {"s1", "s2"}

\* A session id with no entry in the map of sessions.
NoSession == [entry |-> FALSE, interpreter |-> None]

\* PatchworkProxy::new(): no sessions; no request has been received, none
\* forwarded to the successor, none answered.
PatchworkProxy_new ==
    [sessions |-> [s \in SessionIds |-> NoSession],
     handlers |-> <<>>, forwarded |-> <<>>, responses |-> <<>>]

Init ==
    /\ gen = NewGenerator
    /\ program = Program(<<>>)
    /\ result = NoResult
    /\ calls = 0
    /\ source = NoSource
    /\ lexer = NoLexer
    /\ tokens = <<>>
    /\ parser = <<>>
    /\ parsed = NoParse
    /\ interp = Interpreter_new
    /\ outcome = NoCall
    /\ proxy = PatchworkProxy_new

\* CodeGenerator::new(): a fresh instance for the next compilation unit.
New ==
    /\ calls > 0
    /\ gen' = NewGenerator
    /\ program' = Program(<<>>)
    /\ result' = NoResult
    /\ calls' = 0
    /\ UNCHANGED <<front, runtime>>

\* One call of generate on the instance.
GenerateCall(p) ==
    LET r == generate(gen, p)
    IN /\ gen' = r.self
       /\ result' = r.ret
       /\ program' = p
       /\ calls' = calls + 1
       /\ UNCHANGED <<front, runtime>>

\* The first call on a fresh instance.
Compile(p) == calls = 0 /\ GenerateCall(p)

-----------------------------------------------------------------------------
(* Bounds of the inputs.                                                   *)

MaxParams == 2
MaxDepth == 1
MaxNest == 1
MaxStmts == 2
MaxItems == 2
MaxArgs == 2
MaxChain == 3
MaxTextLen == 3
MaxParts == 3

-----------------------------------------------------------------------------
(* Inputs: items, statements and expressions.                              *)

Self == Identifier(<<"s","e","l","f">>)
SelfSession(f) == Member(Member(Self, <<"s","e","s","s","i","o","n">>), f)
SessionFields == {<<"i","d">>, <<"t","i","m","e","s","t","a","m","p">>, <<"d","i","r">>}
IdA == Identifier(<<"a">>)

ParamNames == {<<"a">>, <<"b">>}

ExprLeaves ==
    {IdA, Number(<<"5">>), [kind |-> "True"], Self, Member(Self, <<"m","a","i","l","b","o","x">>),
     Think(<<>>), Ask(<<>>), Do(<<>>),
     StringLit(<<Text(<<"h","i">>)>>),
     StringLit(<<Text(<<"S","e","s","s","i","o","n"," ">>), Interpolation(SelfSession(<<"i","d">>))>>)}
    \cup {SelfSession(f) : f \in SessionFields}

ExprWrappers(e) ==
    {Paren(e), Binary("Add", IdA, e), Binary("Assign", e, IdA), Binary("Range", e, IdA),
     Binary("Pipe", IdA, e), Unary("Not", e), Unary("Throw", e),
     Call(Identifier(<<"f","o","o">>), <<IdA, e>>), Member(e, <<"x">>), Index(IdA, e),
     ArrayLit(<<IdA, e>>), ObjectLit(<<Field(<<"k">>, Some(e)), Field(<<"y">>, None)>>),
     Await(e), PostIncrement(e),
     StringLit(<<Text(<<"v","=">>), Interpolation(e)>>),
     CommandSubst(BareCommand(<<"e","c","h","o">>, <<ArgString(<<Interpolation(e)>>)>>)),
     ShellChain("ShellPipe", BareCommand(<<"l","s">>, <<>>),
                BareCommand(<<"g","r","e","p">>, <<ArgString(<<Interpolation(e)>>)>>)),
     ShellRedirect(BareCommand(<<"l","s">>, <<>>), "Out", e)}

RECURSIVE Exprs(_)
Exprs(d) ==
    IF d = 0 THEN ExprLeaves
    ELSE ExprLeaves \cup UNION {ExprWrappers(e) : e \in Exprs(d - 1)}

StmtLeaves ==
    {IdA, Self, Member(Self, <<"m","a","i","l","b","o","x">>), SelfSession(<<"d","i","r">>), Think(<<>>), Do(<<>>)}

SimpleStmts ==
    {Return(None), Break, Succeed, TypeDeclStmt,
     VarDecl(PatIdentifier(<<"x">>), None), VarDecl(PatIgnore, None),
     VarDecl(PatArray, None)}
    \cup UNION {{VarDecl(PatIdentifier(<<"w","o","r","k","_","d","i","r">>), Some(e)), VarDecl(PatIgnore, Some(e)),
                 VarDecl(PatObject, Some(e)), ExprStmt(e), Return(Some(e))}
                : e \in StmtLeaves}

RECURSIVE Stmts(_)
Stmts(n) ==
    IF n = 0 THEN SimpleStmts
    ELSE SimpleStmts
         \cup UNION {{If(e, <<>>, None), While(e, <<>>), ForIn(<<"i">>, e, <<>>)}
                     : e \in StmtLeaves}
         \cup UNION {{If(IdA, <<s>>, None), If(IdA, <<>>, Some(<<s>>)),
                      While(IdA, <<s>>), ForIn(<<"i">>, IdA, <<s>>)}
                     : s \in Stmts(n - 1)}

SeqStmts ==
    {VarDecl(PatIdentifier(<<"x">>), Some(IdA)), VarDecl(PatObject, Some(IdA)),
     ExprStmt(Ask(<<>>)), Return(Some(Self))}

ItemPool ==
    {ImportItem, TraitItem, TypeItem,
     Skill(<<"s">>, <<>>, <<ExprStmt(Think(<<>>))>>),
     Skill(<<"s">>, <<>>, <<VarDecl(PatArray, Some(Do(<<>>)))>>),
     Worker(<<"w">>, <<>>, <<Return(Some(IdA))>>),
     Worker(<<"v">>, <<>>, <<VarDecl(PatObject, Some(IdA))>>),
     Function(<<"f">>, TRUE, <<<<"a">>>>, <<Return(Some(IdA))>>),
     Function(<<"g">>, FALSE, <<>>, <<ExprStmt(Do(<<>>))>>)}

\* A worker or a function with the given parameters.
CompileParams ==
    \E ps \in SeqUpTo(ParamNames, MaxParams) :
        \/ Compile(Program(<<Worker(<<"p","r","o","c","e","s","s">>, ps, <<Return(None)>>)>>))
        \/ \E ex \in BOOLEAN :
              Compile(Program(<<Function(<<"h","e","l","p","e","r">>, ex, ps, <<Return(None)>>)>>))

\* A worker whose body is one expression statement.
CompileExpr ==
    \E e \in Exprs(MaxDepth) : Compile(Program(<<Worker(<<"w">>, <<>>, <<ExprStmt(e)>>)>>))

\* A worker or a function whose body is one statement, or a short sequence.
CompileBody ==
    \E body \in {<<s>> : s \in Stmts(MaxNest)} \cup SeqUpTo(SeqStmts, MaxStmts) :
        \/ Compile(Program(<<Worker(<<"e","x","a","m","p","l","e">>, <<>>, body)>>))
        \/ Compile(Program(<<Function(<<"f">>, FALSE, <<>>, body)>>))

\* A program of several items.
CompileItems == \E items \in SeqUpTo(ItemPool, MaxItems) : Compile(Program(items))

Next == New \/ CompileParams \/ CompileExpr \/ CompileBody \/ CompileItems

Spec == Init /\ [][Next]_vars

-----------------------------------------------------------------------------
(* What the claims speak of, stated on the AST and on the returned text    *)
(* without reference to the generator.                                     *)

\* The interpolated expressions of a sequence of string parts.
PartExprs(parts) ==
    {parts[i].expr : i \in {j \in 1..Len(parts) : parts[j].kind = "Interpolation"}}

\* The interpolated expressions of the string arguments of a command.
ArgExprs(args) ==
    UNION {PartExprs(args[i].parts) : i \in {j \in 1..Len(args) : args[j].kind = "String"}}

\* The expressions directly inside expression e.
ChildExprs(e) ==
    CASE e.kind = "String" -> PartExprs(e.parts)
      [] e.kind = "Array" -> {e.items[i] : i \in 1..Len(e.items)}
      [] e.kind = "Object" ->
            {e.fields[i].value[1] : i \in {j \in 1..Len(e.fields) : e.fields[j].value # None}}
      [] e.kind = "Binary" -> {e.left, e.right}
      [] e.kind \in {"Unary", "PostIncrement", "PostDecrement"} -> {e.operand}
      [] e.kind = "Call" -> {e.callee} \cup {e.args[i] : i \in 1..Len(e.args)}
      [] e.kind = "Member" -> {e.object}
      [] e.kind = "Index" -> {e.object, e.index}
      [] e.kind \in {"Paren", "Await"} -> {e.inner}
      [] e.kind = "BareCommand" -> ArgExprs(e.args)
      [] e.kind = "CommandSubst" -> {e.cmd}
      [] e.kind \in ShellChainKinds -> {e.left, e.right}
      [] e.kind = "ShellRedirect" -> {e.command, e.target}
      [] OTHER -> {}

\* Expression e is, or contains, a think/ask prompt block or a do-expression.
RECURSIVE HasPromptOrDo(_)
HasPromptOrDo(e) ==
    \/ e.kind \in {"Think", "Ask", "Do"}
    \/ \E c \in ChildExprs(e) : HasPromptOrDo(c)

\* The expressions directly inside statement s, and its nested blocks.
StmtExprs(s) ==
    CASE s.kind = "VarDecl" -> {s.init[i] : i \in 1..Len(s.init)}
      [] s.kind = "Expr" -> {s.expr}
      [] s.kind \in {"If", "While"} -> {s.condition}
      [] s.kind = "ForIn" -> {s.iter}
      [] s.kind = "Return" -> {s.expr[i] : i \in 1..Len(s.expr)}
      [] OTHER -> {}

StmtBlocks(s) ==
    CASE s.kind = "If" -> {s.then_block} \cup {s.else_block[i] : i \in 1..Len(s.else_block)}
      [] s.kind \in {"While", "ForIn"} -> {s.body}
      [] OTHER -> {}

\* Statement s is, or contains at any depth, a destructuring declaration, a
\* prompt block or a do-expression.
RECURSIVE StmtHasUnsupported(_)
StmtHasUnsupported(s) ==
    \/ s.kind = "VarDecl" /\ s.pattern.kind \in {"Object", "Array"}
    \/ \E e \in StmtExprs(s) : HasPromptOrDo(e)
    \/ \E b \in StmtBlocks(s) : \E i \in 1..Len(b) : StmtHasUnsupported(b[i])

BlockHasUnsupported(b) == \E i \in 1..Len(b) : StmtHasUnsupported(b[i])

\* The items of the last call's Program that are of one of the kinds.
ItemsOfKind(kinds) ==
    {program.items[i] : i \in {j \in 1..Len(program.items) : program.items[j].kind \in kinds}}

Returned == result.tag # "None"

RefusedUnsupported ==
    /\ result.tag = "Err"
    /\ result.err.kind = "Unsupported"
    /\ result.text = <<>>

\* C1 as stated: a Program that contains a destructuring declaration, a prompt
\* block or a do-expression anywhere in it (in the body of any item that has
\* one) is refused with an Unsupported error and no text.
C1_AnywhereRefused ==
    (Returned /\ \E it \in ItemsOfKind({"Worker", "Function", "Skill"}) :
                    BlockHasUnsupported(it.body))
        => RefusedUnsupported

\* C1 as amended: a Program that contains a destructuring declaration, a prompt
\* block or a do-expression in the body of a Worker or a Function, at any
\* depth, is refused with an Unsupported error and no text.
C1_LoweredBodyRefused ==
    (Returned /\ \E it \in ItemsOfKind({"Worker", "Function"}) :
                    BlockHasUnsupported(it.body))
        => RefusedUnsupported

\* C1 witness: the second item is refused after a first worker was lowered.
C1_Witness ==
    /\ Len(program.items) = 2
    /\ program.items[1].kind = "Worker" /\ ~BlockHasUnsupported(program.items[1].body)
    /\ program.items[2].kind = "Function" /\ BlockHasUnsupported(program.items[2].body)
    /\ RefusedUnsupported
    /\ gen.output # <<>>

\* The parameters p1..pn, each preceded by ", ".
RECURSIVE AfterSession(_)
AfterSession(params) ==
    IF params = <<>> THEN <<>> ELSE <<","," ">> \o Head(params) \o AfterSession(Tail(params))

\* C2 as stated: every Worker is emitted as
\* export function NAME(session, p1, ..., pn).
C2_WorkerTakesSession ==
    (result.tag = "Ok") =>
        \A w \in ItemsOfKind({"Worker"}) :
            Contains(result.text,
                     <<"e","x","p","o","r","t"," ","f","u","n","c","t","i","o","n"," ">> \o w.name \o <<"(","s","e","s","s","i","o","n">>
                         \o AfterSession(w.params) \o <<")">>)

\* The body holds one statement that returns or evaluates expression e.
BodyIsJust(w, e) == w.body = <<Return(Some(e))>> \/ w.body = <<ExprStmt(e)>>

\* C3 as stated: a worker whose body refers to bare self, or to a field of
\* self outside the recognized set, is refused with InvalidSessionAccess.
C3_InvalidSelfRefused ==
    (Returned /\ \E w \in ItemsOfKind({"Worker"}) :
                    \E e \in {Self, Member(Self, <<"m","a","i","l","b","o","x">>)} : BodyIsJust(w, e))
        => /\ result.tag = "Err"
           /\ result.err.kind = "InvalidSessionAccess"
           /\ result.text = <<>>

\* C4 as stated: self.session.F, F in {id, timestamp, dir}, is lowered to
\* session.F, in an initializer and inside a string interpolation.
C4_SessionFieldLowered ==
    /\ \A f \in SessionFields :
         (Returned /\ \E w \in ItemsOfKind({"Worker"}) :
                 w.body = <<VarDecl(PatIdentifier(<<"w","o","r","k","_","d","i","r">>), Some(SelfSession(f)))>>)
            => /\ result.tag = "Ok"
               /\ Contains(result.text, <<"l","e","t"," ","w","o","r","k","_","d","i","r"," ","="," ","s","e","s","s","i","o","n",".">> \o f \o <<";">>)
    /\ (Returned /\ \E w \in ItemsOfKind({"Worker"}) :
            w.body = <<ExprStmt(StringLit(<<Text(<<"S","e","s","s","i","o","n"," ">>),
                                            Interpolation(SelfSession(<<"i","d">>))>>))>>)
            => /\ result.tag = "Ok"
               /\ Contains(result.text, <<"bq","S","e","s","s","i","o","n"," ","$","{","s","e","s","s","i","o","n",".","i","d","}","bq">>)

-----------------------------------------------------------------------------
(* Shell commands: inputs, and the specification that compiles them.       *)

ArgTexts == {<<"h","e","l","l","o">>, <<"a","bq","b">>, <<"\\">>, <<"$","{","x","}">>}

ArgPool ==
    {ArgLiteral(<<"-","l">>), ArgLiteral(<<"f","i","l","e",".","t","x","t">>),
     ArgString(<<Text(<<"v","=">>), Interpolation(IdA)>>)}
    \cup {ArgString(<<Text(t)>>) : t \in ArgTexts}

Commands == {BareCommand(n, args) : n \in {<<"e","c","h","o">>, <<"l","s">>}, args \in SeqUpTo(ArgPool, MaxArgs)}

ChainCmds ==
    {BareCommand(<<"e","c","h","o">>, <<ArgString(<<Text(<<"t","e","s","t">>)>>)>>),
     BareCommand(<<"g","r","e","p">>, <<ArgLiteral(<<"t","e","s","t">>)>>),
     BareCommand(<<"c","a","t">>, <<ArgLiteral(<<"f","i","l","e",".","t","x","t">>)>>)}

\* The chain of the commands cmds (at least one), nested to the left / right.
RECURSIVE LeftChain(_, _)
LeftChain(kind, cmds) ==
    IF Len(cmds) = 1 THEN cmds[1]
    ELSE ShellChain(kind, LeftChain(kind, SubSeq(cmds, 1, Len(cmds) - 1)), cmds[Len(cmds)])

RECURSIVE RightChain(_, _)
RightChain(kind, cmds) ==
    IF Len(cmds) = 1 THEN cmds[1]
    ELSE ShellChain(kind, cmds[1], RightChain(kind, Tail(cmds)))

RedirectTargets == {Identifier(<<"f">>), StringLit(<<Text(<<"o","u","t",".","t","x","t">>)>>)}

\* A worker whose body is the given statements.
RunCmd(body) == Program(<<Worker(<<"r","u","n","_","c","m","d">>, <<>>, body)>>)

\* $ cmd as a statement.
CompileCommand == \E c \in Commands : Compile(RunCmd(<<ExprStmt(c)>>))

\* $(cmd) as an initializer, alone and followed by the statement form of cmd.
CompileSubst ==
    \E c \in Commands :
        \/ Compile(RunCmd(<<VarDecl(PatIdentifier(<<"r","e","s","u","l","t">>), Some(CommandSubst(c)))>>))
        \/ Compile(RunCmd(<<VarDecl(PatIgnore, Some(CommandSubst(c))), ExprStmt(c)>>))

ChainLists == {cmds \in SeqUpTo(ChainCmds, MaxChain) : Len(cmds) >= 2}

\* A pipe, and, or or chain of two or more commands.
CompileChain ==
    \E kind \in ShellChainKinds, cmds \in ChainLists :
        \/ Compile(RunCmd(<<ExprStmt(LeftChain(kind, cmds))>>))
        \/ Compile(RunCmd(<<ExprStmt(RightChain(kind, cmds))>>))

\* cmd redirected to or from a target.
CompileRedirect ==
    \E c \in ChainCmds, op \in RedirectOps, target \in RedirectTargets :
        Compile(RunCmd(<<ExprStmt(ShellRedirect(c, op, target))>>))

NextShell == New \/ CompileCommand \/ CompileSubst \/ CompileChain \/ CompileRedirect

SpecShell == Init /\ [][NextShell]_vars

-----------------------------------------------------------------------------
(* What the claims say of the text of a shell command.                     *)

\* The text of an interpolated or target expression of the inputs above.
SimpleText(e) ==
    CASE e.kind = "Identifier" -> e.name
      [] e.kind = "String" -> <<"\"">> \o e.parts[1].text \o <<"\"">>

\* Text t escaped for a template: every backslash, backquote and ${ opener
\* preceded by one backslash, in one pass from left to right.
RECURSIVE TemplateEscaped(_)
TemplateEscaped(t) ==
    IF t = <<>> THEN <<>>
    ELSE IF Head(t) \in {"\\", "bq"} THEN <<"\\", Head(t)>> \o TemplateEscaped(Tail(t))
    ELSE IF StartsWith(t, <<"$","{">>) THEN <<"\\","$","{">> \o TemplateEscaped(SubSeq(t, 3, Len(t)))
    ELSE <<Head(t)>> \o TemplateEscaped(Tail(t))

\* The parts of a string argument one after the other, no quotes around them:
\* an interpolation as ${expr}, a Text part verbatim or, if escaped, as
\* TemplateEscaped gives it.
RECURSIVE PartsText(_, _)
PartsText(parts, escaped) ==
    IF parts = <<>> THEN <<>>
    ELSE (IF Head(parts).kind = "Text" THEN (IF escaped THEN TemplateEscaped(Head(parts).text)
                                               ELSE Head(parts).text)
          ELSE <<"$","{">> \o SimpleText(Head(parts).expr) \o <<"}">>)
         \o PartsText(Tail(parts), escaped)

\* The arguments, each preceded by exactly one space.
RECURSIVE ArgsText(_, _)
ArgsText(args, escaped) ==
    IF args = <<>> THEN <<>>
    ELSE <<" ">>
         \o (IF Head(args).kind = "Literal" THEN Head(args).lit
             ELSE PartsText(Head(args).parts, escaped))
         \o ArgsText(Tail(args), escaped)

\* The command template as C5 states it, and as amended.
StatedTemplate(c) == <<"bq">> \o c.name \o ArgsText(c.args, FALSE) \o <<"bq">>
Template(c) == <<"bq">> \o c.name \o ArgsText(c.args, TRUE) \o <<"bq">>

\* The returned text is a callable whose body is exactly the given lines.
RECURSIVE LinesText(_)
LinesText(lines) ==
    IF lines = <<>> THEN <<>> ELSE <<" "," ">> \o Head(lines) \o <<"\n">> \o LinesText(Tail(lines))

BodyIsLines(lines) ==
    /\ result.tag = "Ok"
    /\ EndsWith(result.text, <<" ","{","\n">> \o LinesText(lines) \o <<"}","\n","\n">>)

\* The last call compiled one worker with the given body.
Compiled(body) == Returned /\ Len(program.items) = 1 /\ program.items[1].body = body

StatementForm(c) == <<"a","w","a","i","t"," ","$","s","h","e","l","l","(">> \o Template(c) \o <<")">>
CaptureForm(c) == <<"a","w","a","i","t"," ","$","s","h","e","l","l","(">> \o Template(c) \o <<","," ","{","c","a","p","t","u","r","e",":"," ","t","r","u","e","}",")">>

\* C5 as stated: a bare command statement is one call await $shell(T), T the
\* name and, for each argument, one space and its text, the Text parts of a
\* string argument verbatim.
C5_StatedTemplate ==
    \A c \in Commands :
        Compiled(<<ExprStmt(c)>>)
            => BodyIsLines(<<<<"a","w","a","i","t"," ","$","s","h","e","l","l","(">> \o StatedTemplate(c) \o <<")",";">>>>)

\* C5 as amended: a bare command statement is one call await $shell(T), T the
\* name and, for each argument in order, one space and its text: a literal
\* token verbatim, a string argument as its parts without the quotes, each
\* interpolation as ${expr} and each Text part with every backslash, backquote
\* and ${ of it preceded by a backslash.
C5_EscapedTemplate ==
    \A c \in Commands :
        Compiled(<<ExprStmt(c)>>)
            => BodyIsLines(<<<<"a","w","a","i","t"," ","$","s","h","e","l","l","(">> \o Template(c) \o <<")",";">>>>)

\* C5 witness: echo "a<backquote>b" -l was lowered.
C5_Witness ==
    /\ Compiled(<<ExprStmt(BareCommand(<<"e","c","h","o">>,
                     <<ArgString(<<Text(<<"a","bq","b">>)>>), ArgLiteral(<<"-","l">>)>>))>>)
    /\ result.tag = "Ok"
    /\ Contains(result.text, <<"e","c","h","o"," ","a","\\","bq","b"," ","-","l">>)

\* C6: $(cmd) lowers to await $shell(T, {capture: true}); the statement form
\* of the same command does not end in the capture flag, and the two forms
\* are different texts.
C6_CaptureFlag ==
    \A c \in Commands :
        /\ Compiled(<<VarDecl(PatIdentifier(<<"r","e","s","u","l","t">>), Some(CommandSubst(c)))>>)
              => BodyIsLines(<<<<"l","e","t"," ","r","e","s","u","l","t"," ","="," ">> \o CaptureForm(c) \o <<";">>>>)
        /\ Compiled(<<VarDecl(PatIgnore, Some(CommandSubst(c))), ExprStmt(c)>>)
              => /\ BodyIsLines(<<CaptureForm(c) \o <<";">>, StatementForm(c) \o <<";">>>>)
                 /\ ~EndsWith(StatementForm(c), <<","," ","{","c","a","p","t","u","r","e",":"," ","t","r","u","e","}",")">>)
                 /\ CaptureForm(c) # StatementForm(c)

\* C6 witness: both forms of  ls -l  were lowered in one body.
C6_Witness ==
    LET c == BareCommand(<<"l","s">>, <<ArgLiteral(<<"-","l">>)>>)
    IN /\ Compiled(<<VarDecl(PatIgnore, Some(CommandSubst(c))), ExprStmt(c)>>)
       /\ result.tag = "Ok"
       /\ Contains(result.text, <<"{","c","a","p","t","u","r","e",":"," ","t","r","u","e","}">>)

\* The commands of a chain in source order.
RECURSIVE ChainCommands(_)
ChainCommands(e) ==
    IF e.kind \in ShellChainKinds THEN ChainCommands(e.left) \o ChainCommands(e.right)
    ELSE <<e>>

ChainHelper(kind) ==
    CASE kind = "ShellPipe" -> <<"$","s","h","e","l","l","P","i","p","e">>
      [] kind = "ShellAnd" -> <<"$","s","h","e","l","l","A","n","d">>
      [] kind = "ShellOr" -> <<"$","s","h","e","l","l","O","r">>

\* The templates of the commands, separated by ", ".
RECURSIVE TemplateList(_)
TemplateList(cmds) ==
    IF Len(cmds) = 1 THEN Template(cmds[1])
    ELSE Template(cmds[1]) \o <<","," ">> \o TemplateList(Tail(cmds))

\* C7 as stated: a chain of n >= 2 commands is one call of its helper on one
\* list of the n templates in source order.
C7_OneFlatList ==
    \A e \in {program.items[i].body[1].expr :
                i \in {j \in 1..Len(program.items) :
                         /\ program.items[j].kind = "Worker"
                         /\ Len(program.items[j].body) = 1
                         /\ program.items[j].body[1].kind = "Expr"
                         /\ program.items[j].body[1].expr.kind \in ShellChainKinds}} :
        Returned =>
            BodyIsLines(<<<<"a","w","a","i","t"," ">> \o ChainHelper(e.kind) \o <<"(","[">>
                              \o TemplateList(ChainCommands(e)) \o <<"]",")",";">>>>)

RedirectToken(op) ==
    CASE op = "Out" -> <<">">>
      [] op = "Append" -> <<">",">">>
      [] op = "In" -> <<"<">>
      [] op = "ErrOut" -> <<"2",">">>
      [] op = "ErrToOut" -> <<"2",">","&","1">>

\* C8: a redirect of a command is one call
\* await $shellRedirect(T, 'tok', target), tok as tabulated for the five
\* operators, no two of which share a token.
C8_RedirectToken ==
    /\ \A c \in ChainCmds, op \in RedirectOps, target \in RedirectTargets :
          Compiled(<<ExprStmt(ShellRedirect(c, op, target))>>)
              => BodyIsLines(<<<<"a","w","a","i","t"," ","$","s","h","e","l","l","R","e","d","i","r","e","c","t","(">> \o Template(c) \o <<","," ","'">>
                                   \o RedirectToken(op) \o <<"'",","," ">> \o SimpleText(target)
                                   \o <<")",";">>>>)
    /\ \A o1, o2 \in RedirectOps :
          (o1 # o2 /\ Compiled(<<ExprStmt(ShellRedirect(
                                     BareCommand(<<"c","a","t">>, <<ArgLiteral(<<"f","i","l","e",".","t","x","t">>)>>),
                                     o1, Identifier(<<"f">>)))>>))
              => ~Contains(result.text, <<","," ","'">> \o RedirectToken(o2) \o <<"'",","," ">>)

\* C8 witness: cat file.txt 2>&1 f was lowered.
C8_Witness ==
    /\ Compiled(<<ExprStmt(ShellRedirect(BareCommand(<<"c","a","t">>, <<ArgLiteral(<<"f","i","l","e",".","t","x","t">>)>>),
                                          "ErrToOut", Identifier(<<"f">>)))>>)
    /\ result.tag = "Ok"
    /\ Contains(result.text, <<"'","2",">","&","1","'">>)

-----------------------------------------------------------------------------
(* String literals: inputs, and the specification that compiles them.      *)

Alphabet == {"\\", "\"", "\n", "\r", "\t", "bq", "$", "{", "a"}

Texts == SeqUpTo(Alphabet, MaxTextLen)

PartPool ==
    {Text(t) : t \in {<<"\\">>, <<"bq">>, <<"$">>, <<"{">>, <<"{","y","}">>, <<"a">>}}
    \cup {Interpolation(Identifier(<<"x">>)), Interpolation(Identifier(<<"y">>))}

\* var s = <the string literal of the given parts>, in a worker.
VarS(parts) ==
    Program(<<Worker(<<"w">>, <<>>,
                     <<VarDecl(PatIdentifier(<<"s">>), Some(StringLit(parts)))>>)>>)

\* A literal of one Text part.
CompilePlainString == \E t \in Texts : Compile(VarS(<<Text(t)>>))

\* A literal of any parts, and a literal of a text followed by an interpolation.
CompileTemplateString ==
    \/ \E parts \in SeqUpTo(PartPool, MaxParts) : Compile(VarS(parts))
    \/ \E t \in Texts : Compile(VarS(<<Text(t), Interpolation(Identifier(<<"x">>))>>))

NextString == New \/ CompilePlainString \/ CompileTemplateString

SpecString == Init /\ [][NextString]_vars

-----------------------------------------------------------------------------
(* What the claims say of an emitted string literal.                       *)

\* The last call compiled  var s = <a string literal>  in one worker.
CompiledVarS ==
    /\ Returned
    /\ Len(program.items) = 1
    /\ Len(program.items[1].body) = 1
    /\ program.items[1].body[1].kind = "VarDecl"
    /\ program.items[1].body[1].pattern = PatIdentifier(<<"s">>)
    /\ program.items[1].body[1].init # None
    /\ program.items[1].body[1].init[1].kind = "String"

SourceParts == program.items[1].body[1].init[1].parts

\* The emitted initializer: the text between the first "let s = " and the
\* end of the statement, which ends the body.
EmittedLiteral ==
    LET t == result.text
        at == {i \in 1..(Len(t) - 7) : SubSeq(t, i, i + 7) = <<"l","e","t"," ","s"," ","="," ">>}
        i == CHOOSE i \in at : \A j \in at : i <= j
    IN IF result.tag = "Ok" /\ at # {} /\ EndsWith(t, <<";","\n","}","\n","\n">>)
       THEN SubSeq(t, i + 8, Len(t) - 5)
       ELSE <<>>

\* The literal without its first and last character.
Inner(lit) == SubSeq(lit, 2, Len(lit) - 1)

\* Whether lit is delimited by q and holds at least the two delimiters.
Delimited(lit, q) == Len(lit) >= 2 /\ lit[1] = q /\ lit[Len(lit)] = q

\* The character an escape sequence \c of a JavaScript string literal stands
\* for; an escaped line terminator stands for nothing.
Unescaped(c) ==
    CASE c = "n" -> <<"\n">>
      [] c = "r" -> <<"\r">>
      [] c = "t" -> <<"\t">>
      [] c \in {"\n", "\r"} -> <<>>
      [] OTHER -> <<c>>

\* The value of the body s of a double-quoted JavaScript string literal; not
\* ok if s is no such body: it holds an unescaped double quote or line
\* terminator, or ends in a lone backslash.
RECURSIVE JsDecode(_)
JsDecode(s) ==
    IF s = <<>> THEN [ok |-> TRUE, text |-> <<>>]
    ELSE IF Head(s) \in {"\"", "\n", "\r"} THEN [ok |-> FALSE, text |-> <<>>]
    ELSE IF Head(s) = "\\"
         THEN IF Len(s) = 1 THEN [ok |-> FALSE, text |-> <<>>]
              ELSE LET r == JsDecode(SubSeq(s, 3, Len(s)))
                   IN [ok |-> r.ok, text |-> Unescaped(s[2]) \o r.text]
    ELSE LET r == JsDecode(Tail(s))
         IN [ok |-> r.ok, text |-> <<Head(s)>> \o r.text]

\* C9: the literal emitted for a string literal of exactly one Text part t is
\* a double-quoted literal whose decoded value is t.
C9_EscapeRoundTrip ==
    (CompiledVarS /\ Len(SourceParts) = 1 /\ SourceParts[1].kind = "Text")
        => /\ result.tag = "Ok"
           /\ Delimited(EmittedLiteral, "\"")
           /\ JsDecode(Inner(EmittedLiteral)) = [ok |-> TRUE, text |-> SourceParts[1].text]

\* C9 witness: a text of a backslash, a double quote and a newline was
\* emitted as a quoted literal.
C9_Witness ==
    /\ CompiledVarS
    /\ SourceParts = <<Text(<<"\\","\"","\n">>)>>
    /\ result.tag = "Ok"
    /\ EmittedLiteral = <<"\"","\\","\\","\\","\"","\\","n","\"">>

\* The place of the first } of s, or Len(s) + 1 if it has none.
RECURSIVE CloseAt(_, _)
CloseAt(s, i) == IF i > Len(s) \/ s[i] = "}" THEN i ELSE CloseAt(s, i + 1)

\* The body s of a JavaScript template literal read from left to right: the
\* expressions of its ${...} substitutions in order, and whether it is broken
\* by an unescaped backquote or a substitution that is never closed.
RECURSIVE TemplateScan(_)
TemplateScan(s) ==
    IF s = <<>> THEN [subs |-> <<>>, broken |-> FALSE]
    ELSE IF Head(s) = "\\" THEN TemplateScan(SubSeq(s, 3, Len(s)))
    ELSE IF Head(s) = "bq" THEN [subs |-> <<>>, broken |-> TRUE]
    ELSE IF StartsWith(s, <<"$","{">>)
         THEN LET k == CloseAt(s, 3)
                  r == TemplateScan(SubSeq(s, k + 1, Len(s)))
              IN [subs |-> <<SubSeq(s, 3, k - 1)>> \o r.subs,
                  broken |-> r.broken \/ k > Len(s)]
    ELSE TemplateScan(Tail(s))

\* The expressions of the Interpolation parts, in order.
RECURSIVE InterpolationsOf(_)
InterpolationsOf(parts) ==
    IF parts = <<>> THEN <<>>
    ELSE (IF Head(parts).kind = "Interpolation" THEN <<Head(parts).expr.name>> ELSE <<>>)
         \o InterpolationsOf(Tail(parts))

\* C10 as stated: the literal emitted for a string literal with Interpolation
\* parts is delimited by backquotes, has no other unescaped backquote, and
\* its unescaped ${ openers are those of the Interpolation parts, one for each
\* and in order.
C10_OnlyWrittenSubstitutions ==
    (CompiledVarS /\ InterpolationsOf(SourceParts) # <<>>)
        => /\ result.tag = "Ok"
           /\ Delimited(EmittedLiteral, "bq")
           /\ TemplateScan(Inner(EmittedLiteral))
                 = [subs |-> InterpolationsOf(SourceParts), broken |-> FALSE]

-----------------------------------------------------------------------------
(* The front end: the lexer and the parser behind parse().  Their code      *)
(* (the lexer crate's rules, the token adapter and the grammar) is not in   *)
(* the tree; they are modelled from the specification's sections 4.1 and    *)
(* 4.2 and from the parser's tests, on a source that is a sequence of       *)
(* lexemes.  parse() itself is lib.rs of the parser crate.                  *)

Digits == {"1", "2", "3"}
Letters == {"x", "y", "z", "w", "f"}
Keywords == {"fun", "var", "return", "think", "ask", "do"}
Punctuation ==
    {"=", "||", "&&", "==", "!=", "<", ">", "+", "-", "*", "/", "!", ".",
     "(", ")", "{", "}", ";", "\n"}

\* The token of a lexeme in code mode; no rule matches any other lexeme.
CodeToken(lx) ==
    CASE lx \in Digits -> [kind |-> "Num", lx |-> lx]
      [] lx \in Letters -> [kind |-> "Ident", lx |-> lx]
      [] lx \in Keywords \cup Punctuation -> [kind |-> lx, lx |-> lx]
      [] OTHER -> [kind |-> "Malformed", lx |-> lx]

Top(stack) == stack[Len(stack)]
Pop(stack) == SubSeq(stack, 1, Len(stack) - 1)

\* A lexer over a source: at its first lexeme, in code mode.
lex_str == [pos |-> 1, stack |-> <<"Code">>, pending |-> "none"]

\* The mode an opening brace enters: prompt text after think or ask, code
\* after a do inside prompt text, and otherwise the mode it is met in.
Entered(lx) ==
    CASE lx.pending = "prompt" -> "Prompt"
      [] lx.pending = "code" -> "Code"
      [] OTHER -> Top(lx.stack)

\* A lexer without a stack: every closing brace leaves for code mode.
Left_for_code(stack) == <<"Code">>

\* The modes after a closing brace: the mode its opener was met in is on
\* top again; a closing brace with no opener changes nothing.
Left(stack) == IF Len(stack) > 1 THEN Pop(stack) ELSE stack

\* try_next: the token at the lexer's position and the lexer after it.
\* The modes are a stack: an opening brace pushes the mode it enters and a
\* closing brace pops back to the mode its opener was met in.
try_next(lx, src) ==
    LET l == src[lx.pos]
        mode == Top(lx.stack)
        at(stack, pending) == [pos |-> lx.pos + 1, stack |-> stack, pending |-> pending]
    IN CASE l = "{" ->
                [lexer |-> at(Append(lx.stack, Entered(lx)), "none"),
                 tok |-> [kind |-> "{", lx |-> l]]
         [] l = "}" ->
                [lexer |-> at(Left(lx.stack), "none"),
                 tok |-> [kind |-> "}", lx |-> l]]
         [] l # "{" /\ l # "}" /\ mode = "Prompt" ->
                IF l = "do" /\ lx.pos < Len(src) /\ src[lx.pos + 1] = "{"
                THEN [lexer |-> at(lx.stack, "code"), tok |-> [kind |-> "do", lx |-> l]]
                ELSE [lexer |-> at(lx.stack, "none"), tok |-> [kind |-> "Text", lx |-> l]]
         [] OTHER ->
                [lexer |-> at(lx.stack, IF l \in {"think", "ask"} THEN "prompt" ELSE "none"),
                 tok |-> CodeToken(l)]

\* The parser is a pushdown machine over the tokens.  Its stack holds the
\* constructs that are open, innermost last; a construct that is complete
\* is folded into the one below it.
Items(items) == [f |-> "Items", items |-> items]
Fun(stage, name) == [f |-> "Fun", stage |-> stage, name |-> name]
Blk(stmts, ready) == [f |-> "Block", stmts |-> stmts, ready |-> ready]
Var(stage, name) == [f |-> "Var", stage |-> stage, name |-> name]
Ret == [f |-> "Return"]
Val(node) == [f |-> "Val", node |-> node]
Un(op) == [f |-> "Unary", op |-> op]
Bin(op, left) == [f |-> "Binary", op |-> op, left |-> left]
Open(what) == [f |-> "Open", what |-> what]
Prompt(kw, stage, items) == [f |-> "Prompt", kw |-> kw, stage |-> stage, items |-> items]

\* The parser before its first token, and the stack of a parser that has
\* refused a token.
ProgramParser == <<Items(<<>>)>>
Refused == <<>>

\* The table with the multiplicative operators no stronger than the
\* additive ones.
Prec_multiplicative_as_additive(k) ==
    CASE k = "=" -> 1
      [] k = "||" -> 2
      [] k = "&&" -> 3
      [] k \in {"==", "!="} -> 4
      [] k \in {"<", ">"} -> 5
      [] k \in {"+", "-", "*", "/"} -> 6
      [] OTHER -> 0

\* The precedence table: the binding strength of a binary operator, 0 for a
\* token that is none; assignment binds loosest and groups to the right.
Prec(k) ==
    CASE k = "=" -> 1
      [] k = "||" -> 2
      [] k = "&&" -> 3
      [] k \in {"==", "!="} -> 4
      [] k \in {"<", ">"} -> 5
      [] k \in {"+", "-"} -> 6
      [] k \in {"*", "/"} -> 7
      [] OTHER -> 0

RightAssoc(k) == k = "="

BinOpOf(k) ==
    CASE k = "=" -> "Assign" [] k = "||" -> "Or" [] k = "&&" -> "And"
      [] k = "==" -> "Eq" [] k = "!=" -> "NotEq" [] k = "<" -> "Lt" [] k = ">" -> "Gt"
      [] k = "+" -> "Add" [] k = "-" -> "Sub" [] k = "*" -> "Mul" [] k = "/" -> "Div"

PromptText(t) == [kind |-> "Text", text |-> t]
PromptCode(block) == [kind |-> "Code", block |-> block]

Separators == {";", "\n"}

\* The grammar with a do block among the expressions.
OperandStart_with_do == {"Num", "Ident", "!", "-", "(", "think", "ask", "do"}

\* The tokens an expression starts with: a do is not among them, it is met
\* only as an item of a prompt block.
OperandStart == {"Num", "Ident", "!", "-", "(", "think", "ask"}

\* Whether an expression may start on top of the stack st.
AtOperand(st) ==
    \/ Top(st).f \in {"Unary", "Binary", "Return"}
    \/ Top(st).f = "Open" /\ Top(st).what = "Paren"
    \/ Top(st).f = "Var" /\ Top(st).stage = "init"
    \/ Top(st).f = "Block" /\ Top(st).ready

\* An operand is complete on top of st and an operator of strength p
\* follows (0: the expression ends): the pending operators that bind more
\* strongly take it as their operand, and among equals the left one does,
\* unless they group to the right.
RECURSIVE Fold(_, _, _)
Fold(st, p, right) ==
    LET below == st[Len(st) - 1]
        under == SubSeq(st, 1, Len(st) - 2)
    IN CASE below.f = "Unary" ->
                Fold(Append(under, Val(Unary(below.op, Top(st).node))), p, right)
         [] below.f = "Binary" /\ (Prec(below.op) > p \/ (Prec(below.op) = p /\ ~right)) ->
                Fold(Append(under, Val(Binary(BinOpOf(below.op), below.left, Top(st).node))),
                     p, right)
         [] OTHER -> st

\* The statement s is complete: it joins the block on top of st.
Joined(st, s) ==
    IF Top(st).f = "Block" THEN Append(Pop(st), Blk(Append(Top(st).stmts, s), FALSE))
    ELSE Refused

\* The rule with a return that has to have a value: a separator does not
\* end a bare return.
Ended_value_required(st) ==
    CASE Top(st).f = "Var" /\ Top(st).stage = "named" ->
            Joined(Pop(st), VarDecl(PatIdentifier(Top(st).name), None))
      [] Top(st).f = "Val" ->
            LET e == Fold(st, 0, FALSE)
                on == e[Len(e) - 1]
                rest == SubSeq(e, 1, Len(e) - 2)
            IN CASE on.f = "Return" -> Joined(rest, Return(Some(Top(e).node)))
                 [] on.f = "Var" ->
                        Joined(rest, VarDecl(PatIdentifier(on.name), Some(Top(e).node)))
                 [] on.f = "Block" -> Joined(Pop(e), ExprStmt(Top(e).node))
                 [] OTHER -> Refused
      [] OTHER -> st

\* A separator or a closing brace follows: the statement that is open on
\* top of st, if any, ends here.  A return has a value only if one started
\* before the separator.
Ended(st) ==
    CASE Top(st).f = "Return" -> Joined(Pop(st), Return(None))
      [] Top(st).f = "Var" /\ Top(st).stage = "named" ->
            Joined(Pop(st), VarDecl(PatIdentifier(Top(st).name), None))
      [] Top(st).f = "Val" ->
            LET e == Fold(st, 0, FALSE)
                on == e[Len(e) - 1]
                rest == SubSeq(e, 1, Len(e) - 2)
            IN CASE on.f = "Return" -> Joined(rest, Return(Some(Top(e).node)))
                 [] on.f = "Var" ->
                        Joined(rest, VarDecl(PatIdentifier(on.name), Some(Top(e).node)))
                 [] on.f = "Block" -> Joined(Pop(e), ExprStmt(Top(e).node))
                 [] OTHER -> Refused
      [] OTHER -> st

\* The closing brace of the block on top of st: the body of a function, or
\* the code of a do block inside a prompt.
Closed(st) ==
    LET on == st[Len(st) - 1]
        rest == SubSeq(st, 1, Len(st) - 2)
    IN CASE on.f = "Fun" ->
                Append(Pop(rest),
                       Items(Append(Top(rest).items,
                                    Function(on.name, FALSE, <<>>, Top(st).stmts))))
         [] on.f = "Prompt" ->
                Append(rest, Prompt(on.kw, "items",
                                    Append(on.items, PromptCode(Top(st).stmts))))

\* The parser's move on the token tok with the stack st: the stack after
\* it, Refused if no rule of the grammar lets tok follow.
Shift(st, tok) ==
    LET k == tok.kind
        s == IF k \in Separators \cup {"}"} THEN Ended(st) ELSE st
        top == Top(s)
    IN CASE s = Refused -> Refused
         [] s # Refused /\ top.f = "Items" ->
                CASE k = "fun" -> Append(s, Fun("name", <<>>))
                  [] k \in Separators -> s
                  [] OTHER -> Refused
         [] s # Refused /\ top.f = "Fun" ->
                CASE top.stage = "name" /\ k = "Ident" -> Append(Pop(s), Fun("(", <<tok.lx>>))
                  [] top.stage = "(" /\ k = "(" -> Append(Pop(s), Fun(")", top.name))
                  [] top.stage = ")" /\ k = ")" -> Append(Pop(s), Fun("{", top.name))
                  [] top.stage = "{" /\ k = "{" -> Append(s, Blk(<<>>, TRUE))
                  [] OTHER -> Refused
         [] s # Refused /\ top.f = "Prompt" ->
                CASE top.stage = "{" /\ k = "{" -> Append(Pop(s), Prompt(top.kw, "items", <<>>))
                  [] top.stage = "items" /\ k = "Text" ->
                        Append(Pop(s), Prompt(top.kw, "items",
                                              Append(top.items, PromptText(<<tok.lx>>))))
                  [] top.stage = "items" /\ k = "do" ->
                        Append(Pop(s), Prompt(top.kw, "do", top.items))
                  [] top.stage = "do" /\ k = "{" -> Append(s, Blk(<<>>, TRUE))
                  [] top.stage = "items" /\ k = "}" ->
                        Append(Pop(s), Val(IF top.kw = "think" THEN Think(top.items)
                                           ELSE Ask(top.items)))
                  [] OTHER -> Refused
         [] s # Refused /\ top.f = "Var" /\ top.stage = "name" ->
                IF k = "Ident" THEN Append(Pop(s), Var("named", <<tok.lx>>)) ELSE Refused
         [] s # Refused /\ top.f = "Var" /\ top.stage = "named" ->
                IF k = "=" THEN Append(Pop(s), Var("init", top.name)) ELSE Refused
         [] s # Refused /\ top.f = "Open" /\ top.what = "Member" ->
                IF k = "Ident"
                THEN Append(SubSeq(s, 1, Len(s) - 2),
                            Val(Member(s[Len(s) - 1].node, <<tok.lx>>)))
                ELSE Refused
         [] s # Refused /\ top.f = "Open" /\ top.what = "Call" ->
                IF k = ")"
                THEN Append(SubSeq(s, 1, Len(s) - 2), Val(Call(s[Len(s) - 1].node, <<>>)))
                ELSE Refused
         [] s # Refused /\ top.f = "Val" ->
                CASE k = "." -> Append(s, Open("Member"))
                  [] k = "(" -> Append(s, Open("Call"))
                  [] Prec(k) > 0 ->
                        LET e == Fold(s, Prec(k), RightAssoc(k))
                        IN Append(Pop(e), Bin(k, Top(e).node))
                  [] k = ")" ->
                        LET e == Fold(s, 0, FALSE)
                        IN IF e[Len(e) - 1] = Open("Paren")
                           THEN Append(SubSeq(e, 1, Len(e) - 2), Val(Paren(Top(e).node)))
                           ELSE Refused
                  [] OTHER -> Refused
         [] s # Refused /\ top.f = "Block" /\ k \in Separators ->
                Append(Pop(s), Blk(top.stmts, TRUE))
         [] s # Refused /\ top.f = "Block" /\ k = "}" -> Closed(s)
         [] s # Refused /\ top.f = "Block" /\ top.ready /\ k = "var" ->
                Append(s, Var("name", <<>>))
         [] s # Refused /\ top.f = "Block" /\ top.ready /\ k = "return" -> Append(s, Ret)
         [] s # Refused /\ AtOperand(s) /\ k \in OperandStart ->
                CASE k = "Num" -> Append(s, Val(Number(<<tok.lx>>)))
                  [] k = "Ident" -> Append(s, Val(Identifier(<<tok.lx>>)))
                  [] k = "!" -> Append(s, Un("Not"))
                  [] k = "-" -> Append(s, Un("Neg"))
                  [] k = "(" -> Append(s, Open("Paren"))
                  [] OTHER -> Append(s, Prompt(k, "{", <<>>))
         [] OTHER -> Refused

\* The end of the input with the stack st: the parser accepts if nothing
\* but the program is open.
Accepts(st) == Len(st) = 1 /\ Top(st).f = "Items"

\* The error parse makes of an error of the generated parser: it carries
\* the text of that error, which kind it is and the place it names.
UnexpectedToken(of, at) == [kind |-> "UnexpectedToken", of |-> of, at |-> at]

ParseOk(p) == [tag |-> "Ok", program |-> p]
ParseErr(e) == [tag |-> "Err", err |-> e]

\* parse(input): lex_str makes the lexer, the adapter is put around it and
\* the generated parser starts.
parse(src) ==
    /\ source = NoSource
    /\ calls = 0
    /\ source' = src
    /\ lexer' = lex_str
    /\ tokens' = <<>>
    /\ parser' = ProgramParser
    /\ parsed' = NoParse
    /\ UNCHANGED <<gen, program, result, calls, runtime>>

Parsing == source # NoSource /\ parsed = NoParse

\* The parser pulls a token and the lexer has one: the parser takes it, or
\* fails on it with an unrecognized-token error, mapped to UnexpectedToken.
NextToken ==
    /\ Parsing
    /\ lexer.pos <= Len(source)
    /\ try_next(lexer, source).tok.kind # "Malformed"
    /\ lexer' = try_next(lexer, source).lexer
    /\ tokens' = Append(tokens, try_next(lexer, source).tok)
    /\ parser' = Shift(parser, try_next(lexer, source).tok)
    /\ parsed' = IF parser' # Refused THEN NoParse
                 ELSE ParseErr(UnexpectedToken("UnrecognizedToken", Len(tokens')))
    /\ UNCHANGED <<gen, program, result, calls, source, runtime>>

\* The parser pulls a token and the lexer fails on a malformed one: the
\* adapter hands the failure to the parser, which stops with a user error,
\* and parse maps it like every error of the parser.
LexFailure ==
    /\ Parsing
    /\ lexer.pos <= Len(source)
    /\ try_next(lexer, source).tok.kind = "Malformed"
    /\ parsed' = ParseErr(UnexpectedToken("User", lexer.pos))
    /\ UNCHANGED <<gen, program, result, calls, source, lexer, tokens, parser, runtime>>

\* The parser pulls a token and the input has ended: it returns the
\* Program, or fails with an unexpected end of input.
EndOfInput ==
    /\ Parsing
    /\ lexer.pos > Len(source)
    /\ parsed' = IF Accepts(parser) THEN ParseOk(Program(Top(parser).items))
                 ELSE ParseErr(UnexpectedToken("UnrecognizedEof", Len(tokens) + 1))
    /\ UNCHANGED <<gen, program, result, calls, source, lexer, tokens, parser, runtime>>

-----------------------------------------------------------------------------
(* Sources, and the specification that parses them.                        *)

MaxOps == 2
MaxLines == 3
MaxPromptDepth == 2

\* fun f() { body }
InFun(body) == <<"fun", "f", "(", ")", "{">> \o body \o <<"}">>

BinaryLexemes == {"=", "||", "&&", "==", "!=", "<", ">", "+", "-", "*", "/"}

OperandAt(i) == <<"x", "y", "z", "w">>[((i - 1) % 4) + 1]

\* x op1 y op2 z ...
RECURSIVE ChainOf(_)
ChainOf(ops) ==
    IF ops = <<>> THEN <<"x">>
    ELSE ChainOf(SubSeq(ops, 1, Len(ops) - 1)) \o <<ops[Len(ops)], OperandAt(Len(ops) + 1)>>

Chains == {ChainOf(ops) : ops \in SeqUpTo(BinaryLexemes, MaxOps) \ {<<>>}}

\* Expressions with parentheses, unary and postfix operators.
MixedExprs ==
    {<<"1", "+", "2", "*", "3">>, <<"(", "x", "+", "y", ")", "*", "z">>,
     <<"-", "x", "*", "y">>, <<"x", "*", "-", "y">>, <<"!", "x", "&&", "y">>,
     <<"x", ".", "f", "+", "y">>, <<"x", "+", "y", ".", "f">>, <<"-", "x", ".", "f">>,
     <<"x", "(", ")", "*", "y">>, <<"-", "(", "x", "+", "y", ")">>,
     <<"x", "*", "(", "y", "=", "z", ")">>}

\* An expression as a statement and as an initializer.
ParseExpression ==
    \E e \in Chains \cup MixedExprs :
        \/ parse(InFun(e))
        \/ parse(InFun(<<"var", "x", "=">> \o e))

StatementSources == {<<"return">>, <<"return", "x">>, <<"x">>, <<"var", "x", "=", "1">>}

\* The statements, each but the first after its separator.
RECURSIVE Lines(_, _)
Lines(stmts, seps) ==
    IF Len(stmts) = 1 THEN stmts[1]
    ELSE Lines(SubSeq(stmts, 1, Len(stmts) - 1), SubSeq(seps, 1, Len(seps) - 1))
         \o <<seps[Len(seps)]>> \o stmts[Len(stmts)]

\* A body on one line with the braces, or on lines of its own.
Laid(stmts, seps) ==
    IF seps[1] = "\n" THEN <<"\n">> \o Lines(stmts, seps) \o <<"\n">>
    ELSE Lines(stmts, seps)

Bodies ==
    {[stmts |-> s, seps |-> p] :
        s \in SeqUpTo(StatementSources, MaxLines) \ {<<>>},
        p \in SeqUpTo(Separators, MaxLines)}

\* A body of statements separated by newlines or semicolons.
ParseBody ==
    \E b \in {c \in Bodies : Len(c.seps) = Len(c.stmts)} :
        parse(InFun(Laid(b.stmts, b.seps)))

\* Prompt blocks to depth d: words, and do blocks whose code holds a name
\* or a prompt block again.
RECURSIVE PromptSources(_)
PromptSources(d) ==
    IF d = 0 THEN {}
    ELSE LET code == {<<"y">>} \cup {<<"var", "x", "=">> \o p : p \in PromptSources(d - 1)}
             mid == {<<>>} \cup {<<"do", "{">> \o c \o <<"}">> : c \in code}
         IN {<<kw, "{">> \o pre \o m \o post \o <<"}">> :
                kw \in {"think", "ask"}, pre \in {<<>>, <<"do", "it">>},
                m \in mid, post \in {<<>>, <<"b">>}}

ParsePrompt ==
    \E p \in PromptSources(MaxPromptDepth) : parse(InFun(<<"var", "x", "=">> \o p))

\* Sources with one lexeme replaced by one the lexer or the parser refuses.
SoundSources ==
    {InFun(<<"var", "x", "=", "1", "+", "2", "\n", "return", "x">>),
     InFun(<<"x", "=", "(", "y", ")", ";", "f", "(", ")">>),
     InFun(<<"var", "x", "=", "think", "{", "a", "do", "{", "y", "}", "b", "}">>)}

ParseBroken ==
    \E s \in SoundSources, l \in {"@", ")", "fun"} :
        \E i \in 1..Len(s) : parse([s EXCEPT ![i] = l])

\* Expressions, and sources the front end refuses.
NextParse == ParseExpression \/ ParseBroken \/ NextToken \/ LexFailure \/ EndOfInput

SpecParse == Init /\ [][NextParse]_vars

\* Bodies of statements; no lexeme of theirs is malformed.
NextStatements == ParseBody \/ NextToken \/ EndOfInput

SpecStatements == Init /\ [][NextStatements]_vars

\* Prompt blocks; no lexeme of theirs is malformed.
NextPrompt == ParsePrompt \/ NextToken \/ EndOfInput

SpecPrompt == Init /\ [][NextPrompt]_vars

-----------------------------------------------------------------------------
(* The parser's trees.                                                     *)

\* The sources of ParseExpression.
ExpressionSources ==
    {InFun(e) : e \in Chains \cup MixedExprs}
        \cup {InFun(<<"var", "x", "=">> \o e) : e \in Chains \cup MixedExprs}

\* The lexemes of the expression of such a source.
ExpressionOf(src) ==
    IF src[6] = "var" THEN SubSeq(src, 9, Len(src) - 1) ELSE SubSeq(src, 6, Len(src) - 1)

\* The statements of the only function of a parsed program.
BodyOf(p) == p.program.items[1].body

\* The expression of a statement that is one, or declares with one.
ExprIn(stmt) == IF stmt.kind = "Expr" THEN stmt.expr ELSE stmt.init[1]

\* The stated table, lowest binding first; unary operators bind more
\* strongly than every binary one and postfix operators more strongly yet.
StatedLevel(e) ==
    CASE e.kind = "Binary" /\ e.op = "Assign" -> 1
      [] e.kind = "Binary" /\ e.op = "Or" -> 2
      [] e.kind = "Binary" /\ e.op = "And" -> 3
      [] e.kind = "Binary" /\ e.op \in {"Eq", "NotEq"} -> 4
      [] e.kind = "Binary" /\ e.op \in {"Lt", "Gt"} -> 5
      [] e.kind = "Binary" /\ e.op \in {"Add", "Sub"} -> 6
      [] e.kind = "Binary" /\ e.op \in {"Mul", "Div"} -> 7
      [] e.kind = "Unary" -> 8
      [] OTHER -> 9

\* No operator of e has as direct operand an operator that binds looser and
\* is not in parentheses; among equals a binary operator groups to the
\* left, assignment to the right.
RECURSIVE FollowsTable(_)
FollowsTable(e) ==
    CASE e.kind = "Binary" ->
            /\ IF e.op = "Assign"
               THEN StatedLevel(e.left) > 1 /\ StatedLevel(e.right) >= 1
               ELSE /\ StatedLevel(e.left) >= StatedLevel(e)
                    /\ StatedLevel(e.right) > StatedLevel(e)
            /\ FollowsTable(e.left)
            /\ FollowsTable(e.right)
      [] e.kind = "Unary" -> StatedLevel(e.operand) >= 8 /\ FollowsTable(e.operand)
      [] e.kind = "Member" -> StatedLevel(e.object) = 9 /\ FollowsTable(e.object)
      [] e.kind = "Call" -> StatedLevel(e.callee) = 9 /\ FollowsTable(e.callee)
      [] e.kind = "Paren" -> FollowsTable(e.inner)
      [] OTHER -> TRUE

OperatorLexeme(op) ==
    CASE op = "Assign" -> "=" [] op = "Or" -> "||" [] op = "And" -> "&&"
      [] op = "Eq" -> "==" [] op = "NotEq" -> "!=" [] op = "Lt" -> "<" [] op = "Gt" -> ">"
      [] op = "Add" -> "+" [] op = "Sub" -> "-" [] op = "Mul" -> "*" [] op = "Div" -> "/"
      [] op = "Not" -> "!" [] op = "Neg" -> "-"

\* The lexemes of the expression e, from left to right.
RECURSIVE Yield(_)
Yield(e) ==
    CASE e.kind = "Binary" -> Yield(e.left) \o <<OperatorLexeme(e.op)>> \o Yield(e.right)
      [] e.kind = "Unary" -> <<OperatorLexeme(e.op)>> \o Yield(e.operand)
      [] e.kind = "Member" -> Yield(e.object) \o <<".">> \o e.field
      [] e.kind = "Call" -> Yield(e.callee) \o <<"(", ")">>
      [] e.kind = "Paren" -> <<"(">> \o Yield(e.inner) \o <<")">>
      [] e.kind = "Identifier" -> e.name
      [] e.kind = "Number" -> e.n

ParsedExpression == source \in ExpressionSources /\ parsed # NoParse

F(body) == ParseOk(Program(<<Function(<<"f">>, FALSE, <<>>, body)>>))

\* C12: every expression source parses; its tree holds the lexemes of the
\* expression in their order and follows the stated precedence table, no
\* operator having a looser un-parenthesized operator as direct operand and
\* assignment grouping to the right; 1 + 2 * 3 is Add(1, Mul(2, 3)) and
\* (x + y) * z is Mul(Paren(Add(x, y)), z).
C12_PrecedenceTable ==
    /\ ParsedExpression =>
            /\ parsed.tag = "Ok"
            /\ Len(BodyOf(parsed)) = 1
            /\ BodyOf(parsed)[1].kind = (IF source[6] = "var" THEN "VarDecl" ELSE "Expr")
            /\ Yield(ExprIn(BodyOf(parsed)[1])) = ExpressionOf(source)
            /\ FollowsTable(ExprIn(BodyOf(parsed)[1]))
    /\ source = InFun(<<"1", "+", "2", "*", "3">>) /\ parsed # NoParse =>
            parsed = F(<<ExprStmt(Binary("Add", Number(<<"1">>),
                                         Binary("Mul", Number(<<"2">>), Number(<<"3">>))))>>)
    /\ source = InFun(<<"(", "x", "+", "y", ")", "*", "z">>) /\ parsed # NoParse =>
            parsed = F(<<ExprStmt(Binary("Mul",
                                         Paren(Binary("Add", Identifier(<<"x">>),
                                                      Identifier(<<"y">>))),
                                         Identifier(<<"z">>)))>>)

\* A chain whose second operator binds more strongly than its first has
\* been parsed: the second operator is the right operand of the first.
C12_Witness ==
    /\ ParsedExpression
    /\ source = InFun(ChainOf(<<"+", "*">>))
    /\ parsed.tag = "Ok"
    /\ ExprIn(BodyOf(parsed)[1]).op = "Add"
    /\ ExprIn(BodyOf(parsed)[1]).right.kind = "Binary"

\* The lexemes between the braces of the function of a source.
Between(src) == SubSeq(src, 6, Len(src) - 1)

\* The runs of lexemes of toks between separators, in order; cur is the run
\* that is open.
RECURSIVE Pieces(_, _)
Pieces(toks, cur) ==
    IF toks = <<>> THEN (IF cur = <<>> THEN <<>> ELSE <<cur>>)
    ELSE IF toks[1] \in {";", "\n"}
    THEN (IF cur = <<>> THEN <<>> ELSE <<cur>>) \o Pieces(Tail(toks), <<>>)
    ELSE Pieces(Tail(toks), Append(cur, toks[1]))

\* The Statement node stated for the lexemes of a statement.
StatedStatement(piece) ==
    CASE piece = <<"return">> -> Return(None)
      [] piece = <<"return", "x">> -> Return(Some(Identifier(<<"x">>)))
      [] piece = <<"x">> -> ExprStmt(Identifier(<<"x">>))
      [] piece = <<"var", "x", "=", "1">> -> VarDecl(PatIdentifier(<<"x">>), Some(Number(<<"1">>)))

\* A function whose body is statements of StatementSources has been parsed.
ParsedBody ==
    /\ source # NoSource
    /\ parsed # NoParse
    /\ Len(source) > 6
    /\ SubSeq(source, 1, 5) = <<"fun", "f", "(", ")", "{">>
    /\ \A i \in 1..Len(Pieces(Between(source), <<>>)) :
            Pieces(Between(source), <<>>)[i] \in StatementSources

\* C13: a body of n statements separated by newlines or semicolons parses
\* to the n Statement nodes of its statements in source order; a return
\* followed by a newline and a name is a value-less Return and then an
\* expression statement of the name.
C13_StatementsEnd ==
    /\ ParsedBody =>
            parsed = F([i \in 1..Len(Pieces(Between(source), <<>>)) |->
                            StatedStatement(Pieces(Between(source), <<>>)[i])])
    /\ parsed # NoParse /\ source \in {InFun(<<"return", "\n", "x">>),
                                       InFun(<<"\n", "return", "\n", "x", "\n">>)} =>
            parsed = F(<<Return(None), ExprStmt(Identifier(<<"x">>))>>)

\* return, a newline and a name have been parsed, as in the parser's test.
C13_Witness ==
    /\ source = InFun(<<"\n", "return", "\n", "x", "\n">>)
    /\ parsed.tag = "Ok"
    /\ Len(BodyOf(parsed)) = 2
    /\ BodyOf(parsed)[1] = Return(None)

-----------------------------------------------------------------------------
(* The lexer's modes.                                                      *)

\* The opening brace that the closing brace at j matches: the nearest one
\* before j with as many openers as closers in between; 0 if there is none.
RECURSIVE Opener(_, _, _)
Opener(src, i, depth) ==
    CASE i = 0 -> 0
      [] i > 0 /\ src[i] = "}" -> Opener(src, i - 1, depth + 1)
      [] i > 0 /\ src[i] = "{" -> IF depth = 0 THEN i ELSE Opener(src, i - 1, depth - 1)
      [] OTHER -> Opener(src, i - 1, depth)

DoOpens(src, i) == src[i] = "do" /\ i < Len(src) /\ src[i + 1] = "{"

\* The stated mode in which the lexeme at n is read: think { and ask {
\* enter prompt text, do { inside prompt text enters code, and a closing
\* brace restores the mode its opening brace was read in.
RECURSIVE StatedMode(_, _)
StatedMode(src, n) ==
    CASE n = 1 -> "Code"
      [] n > 1 /\ src[n - 1] = "{" ->
            CASE n > 2 /\ src[n - 2] \in {"think", "ask"} /\ StatedMode(src, n - 2) = "Code" ->
                    "Prompt"
              [] n > 2 /\ src[n - 2] = "do" /\ StatedMode(src, n - 2) = "Prompt" -> "Code"
              [] OTHER -> StatedMode(src, n - 1)
      [] n > 1 /\ src[n - 1] = "}" ->
            IF Opener(src, n - 2, 0) = 0 THEN StatedMode(src, n - 1)
            ELSE StatedMode(src, Opener(src, n - 2, 0))
      [] OTHER -> StatedMode(src, n - 1)

\* The stated token of the lexeme at i: a word of prompt text in prompt
\* mode unless it is a brace or the do of a do block, a code token in code
\* mode.
StatedKind(src, i) ==
    CASE src[i] \in {"{", "}"} -> src[i]
      [] src[i] \notin {"{", "}"} /\ StatedMode(src, i) = "Prompt" ->
            IF DoOpens(src, i) THEN "do" ELSE "Text"
      [] OTHER -> CodeToken(src[i]).kind

\* C19: the mode the lexer is in is the stated one at every lexeme, for
\* every nesting of prompt and do blocks: a closing brace restores the mode
\* before its matching opener, so the words after a closed do block are
\* prompt text again; and an input that parses ends in the one code mode
\* the lexer started in.
C19_ModeStack ==
    /\ source # NoSource =>
            /\ Top(lexer.stack) = StatedMode(source, lexer.pos)
            /\ \A i \in 1..Len(tokens) : tokens[i].kind = StatedKind(source, i)
    /\ source # NoSource /\ parsed # NoParse /\ parsed.tag = "Ok" => lexer.stack = <<"Code">>

\* A prompt inside a do block inside a prompt has been parsed, with a word
\* of prompt text right after the closed do block.
C19_Witness ==
    /\ source # NoSource
    /\ parsed.tag = "Ok"
    /\ \E i, j \in 1..Len(tokens) :
            /\ i < j
            /\ tokens[i].kind \in {"think", "ask"}
            /\ tokens[j].kind \in {"think", "ask"}
            /\ StatedMode(source, i) = "Code"
            /\ StatedMode(source, j) = "Code"
            /\ Opener(source, j - 1, 0) > i
    /\ \E i \in 2..Len(tokens) :
            /\ tokens[i].kind = "Text"
            /\ tokens[i - 1].kind = "}"
            /\ source[Opener(source, i - 2, 0) - 1] = "do"

-----------------------------------------------------------------------------
(* The outcome of parse.                                                   *)

\* parse has returned an error and the lexer stands at a malformed lexeme
\* that the parser was waiting for: the lexer failed.
LexFailed ==
    /\ parsed # NoParse
    /\ parsed.tag = "Err"
    /\ parser # Refused
    /\ lexer.pos <= Len(source)
    /\ try_next(lexer, source).tok.kind = "Malformed"

\* parse has returned an error and the lexer did not fail: the grammar
\* refused a token, or the end of the input.
GrammarViolated == parsed # NoParse /\ parsed.tag = "Err" /\ ~LexFailed

\* A Program is returned for a whole input only, and a grammar violation
\* is an UnexpectedToken.
C18_Outcomes ==
    /\ parsed # NoParse => parsed.tag \in {"Ok", "Err"}
    /\ parsed # NoParse /\ parsed.tag = "Ok" =>
            /\ lexer.pos > Len(source)
            /\ Len(tokens) = Len(source)
            /\ parsed.program = Program(Top(parser).items)
    /\ GrammarViolated => parsed.err.kind = "UnexpectedToken"

\* After parse has returned, no token is consumed and nothing else is
\* reported.
C18_Halted == parsed # NoParse => UNCHANGED <<source, lexer, tokens, parser, parsed>>

\* A lex failure is returned as the lexer's error.
C18_LexFailureIsLexerError == LexFailed => parsed.err.kind = "LexerError"

\* C18: parse ends in a complete Program or in one terminal error, a lex
\* failure as LexerError and a grammar violation as UnexpectedToken; after
\* it no token is consumed, no second error is reported and no partial
\* Program is returned.
C18_OneTerminalOutcome ==
    /\ [](C18_Outcomes /\ C18_LexFailureIsLexerError)
    /\ [][C18_Halted]_vars

-----------------------------------------------------------------------------
(* Declarations: functions and variables.                                  *)

\* The parameters p1, ..., pn separated by ", ".
StatedParams(params) ==
    IF params = <<>> THEN <<>> ELSE Head(params) \o AfterSession(Tail(params))

\* The last call compiled a Program of one Function and returned its text.
OneFunction ==
    /\ result.tag = "Ok"
    /\ Len(program.items) = 1
    /\ program.items[1].kind = "Function"

\* C14: the text of a Function starts with export exactly if the Function
\* is declared exported, and then is function NAME(p1, ..., pn) with the
\* declared parameters in their order and no other parameter.
C14_ExportMarker ==
    OneFunction =>
        LET f == program.items[1]
            head == <<"f","u","n","c","t","i","o","n"," ">> \o f.name \o <<"(">> \o StatedParams(f.params) \o <<")"," ","{">>
        IN /\ f.is_exported => StartsWith(result.text, <<"e","x","p","o","r","t"," ">> \o head)
           /\ ~f.is_exported => StartsWith(result.text, head)
           /\ ~f.is_exported => ~Contains(result.text, <<"e","x","p","o","r","t">>)

\* Functions of two parameters have been compiled, one of them exported.
C14_Witness ==
    /\ OneFunction
    /\ program.items[1].is_exported
    /\ Len(program.items[1].params) = 2
    /\ program.items[1].params[1] # program.items[1].params[2]
    /\ StartsWith(result.text, <<"e","x","p","o","r","t"," ","f","u","n","c","t","i","o","n"," ","h","e","l","p","e","r","(">>)

\* The last call compiled a Program of one Worker or Function whose body is
\* one variable declaration, and returned its text.
OneVarDecl ==
    /\ result.tag = "Ok"
    /\ Len(program.items) = 1
    /\ program.items[1].kind \in {"Worker", "Function"}
    /\ Len(program.items[1].body) = 1
    /\ program.items[1].body[1].kind = "VarDecl"

\* What the callable of the last call is emitted as around its body.
Opening(it) ==
    (IF it.kind = "Worker" \/ it.is_exported THEN <<"e","x","p","o","r","t"," ">> ELSE <<>>)
        \o <<"f","u","n","c","t","i","o","n"," ">> \o it.name \o <<"(">> \o StatedParams(it.params) \o <<")"," ","{","\n">>
Closing == <<"}","\n","\n">>

\* The text of an initializer that is a name or a member access.
RECURSIVE StatedAccess(_)
StatedAccess(e) ==
    IF e.kind = "Member" THEN StatedAccess(e.object) \o <<".">> \o e.field ELSE e.name

\* The identifier pattern: one binding statement on the line of the
\* declaration, with the initializer if there is one.
C15_Binding ==
    OneVarDecl /\ program.items[1].body[1].pattern.kind = "Identifier" =>
        LET d == program.items[1].body[1]
        IN result.text =
              Opening(program.items[1]) \o <<" "," ","l","e","t"," ">> \o d.pattern.name
                  \o (IF d.init = None THEN <<>> ELSE <<" ","="," ">> \o StatedAccess(d.init[1]))
                  \o <<";","\n">> \o Closing

\* The ignore pattern with an initializer: the initializer as an expression
\* statement, and no binding.
C15_InitializerOnly ==
    OneVarDecl /\ program.items[1].body[1].pattern.kind = "Ignore"
               /\ program.items[1].body[1].init # None =>
        result.text =
            Opening(program.items[1]) \o <<" "," ">>
                \o StatedAccess(program.items[1].body[1].init[1]) \o <<";","\n">> \o Closing

\* The ignore pattern without an initializer: nothing between the opening
\* and the closing of the callable.
C15_NothingEmitted ==
    OneVarDecl /\ program.items[1].body[1] = VarDecl(PatIgnore, None) =>
        result.text = Opening(program.items[1]) \o Closing

\* C15: an identifier pattern is lowered to one binding statement let NAME,
\* with = INIT if it has an initializer; an ignore pattern with an
\* initializer to the initializer alone as an expression statement; an
\* ignore pattern without an initializer to nothing in the output.
C15_VarDeclLowering == C15_Binding /\ C15_InitializerOnly /\ C15_NothingEmitted

-----------------------------------------------------------------------------
(* Operators.                                                              *)

\* Expression e is, or contains, a binary expression tagged Pipe or Range.
RECURSIVE HasPipeOrRange(_)
HasPipeOrRange(e) ==
    \/ e.kind = "Binary" /\ e.op \in {"Pipe", "Range"}
    \/ \E c \in ChildExprs(e) : HasPipeOrRange(c)

RECURSIVE StmtHasPipeOrRange(_)
StmtHasPipeOrRange(s) ==
    \/ \E e \in StmtExprs(s) : HasPipeOrRange(e)
    \/ \E b \in StmtBlocks(s) : \E i \in 1..Len(b) : StmtHasPipeOrRange(b[i])

\* C16: a Program with a binary expression tagged Pipe or Range in the body
\* of a Worker or a Function, whatever its operands, is refused with an
\* Unsupported error and no text.
C16_PipeRangeRefused ==
    (Returned /\ \E it \in ItemsOfKind({"Worker", "Function"}) :
                    \E i \in 1..Len(it.body) : StmtHasPipeOrRange(it.body[i]))
        => RefusedUnsupported

\* A Range whose operands are lowered has been refused for the operator.
C16_Witness ==
    /\ Returned
    /\ Len(program.items) = 1
    /\ program.items[1].body = <<ExprStmt(Binary("Range", IdA, IdA))>>
    /\ RefusedUnsupported
    /\ result.err.msg = "Range operator not yet supported"

-----------------------------------------------------------------------------
(* Items.                                                                  *)

ReturnsA == <<Return(Some(IdA))>>

\* Every Worker and Function of the last call's Program returns the name a.
CallablesReturnA ==
    \A i \in 1..Len(program.items) :
        program.items[i].kind \in {"Worker", "Function"} => program.items[i].body = ReturnsA

\* One callable for every Worker and Function of items, in their order, and
\* nothing for any other item.
RECURSIVE StatedCallables(_)
StatedCallables(items) ==
    IF items = <<>> THEN <<>>
    ELSE (IF Head(items).kind \in {"Worker", "Function"}
          THEN Opening(Head(items)) \o <<" "," ","r","e","t","u","r","n"," ","a",";","\n">> \o Closing
          ELSE <<>>)
         \o StatedCallables(Tail(items))

\* C17: the text of a Program is one callable per Worker and per Function
\* item, in the order of the items; Import, Skill, Trait and Type items add
\* nothing and cause no error, so a Program without Worker and Function
\* items gives Ok with the empty text.
C17_OneCallablePerItem ==
    /\ Returned /\ CallablesReturnA =>
            /\ result.tag = "Ok"
            /\ result.text = StatedCallables(program.items)
    /\ Returned /\ ItemsOfKind({"Worker", "Function"}) = {} =>
            result.tag = "Ok" /\ result.text = <<>>

\* A Skill and then a Worker, and a Function and then a Worker, have been
\* compiled; this is the second.
C17_Witness ==
    /\ Returned
    /\ Len(program.items) = 2
    /\ program.items[1].kind = "Function"
    /\ program.items[2].kind = "Worker"
    /\ CallablesReturnA
    /\ StartsWith(result.text, <<"e","x","p","o","r","t"," ","f","u","n","c","t","i","o","n"," ","f","(","a",")"," ","{">>)
    /\ EndsWith(result.text, <<"e","x","p","o","r","t"," ","f","u","n","c","t","i","o","n"," ","w","(",")"," ","{","\n"," "," ","r","e","t","u","r","n"," ","a",";","\n","}","\n","\n">>)

-----------------------------------------------------------------------------
(* Throw.                                                                  *)

\* Expression e is a name, or a member access on one.
RECURSIVE IsAccess(_)
IsAccess(e) == e.kind = "Identifier" \/ (e.kind = "Member" /\ IsAccess(e.object))

\* The last call compiled a Worker whose body is the statement throw e, e a
\* number, a name or a member access, and returned its text.
ThrowCompiled ==
    /\ result.tag = "Ok"
    /\ Len(program.items) = 1
    /\ program.items[1].kind = "Worker"
    /\ Len(program.items[1].body) = 1
    /\ program.items[1].body[1].kind = "Expr"
    /\ program.items[1].body[1].expr.kind = "Unary"
    /\ program.items[1].body[1].expr.op = "Throw"
    /\ \/ program.items[1].body[1].expr.operand.kind = "Number"
       \/ IsAccess(program.items[1].body[1].expr.operand)

StatedOperand(e) == IF e.kind = "Number" THEN e.n ELSE StatedAccess(e)

\* C20: throw e is lowered to throw new Error(String(E)), E the text of e,
\* written once.
C20_ThrowLowered ==
    ThrowCompiled =>
        result.text =
            Opening(program.items[1]) \o <<" "," ","t","h","r","o","w"," ","n","e","w"," ","E","r","r","o","r","(","S","t","r","i","n","g","(">>
                \o StatedOperand(program.items[1].body[1].expr.operand)
                \o <<")",")",";","\n">> \o Closing

\* throw self.session.id has been compiled.
C20_Witness ==
    /\ ThrowCompiled
    /\ program.items[1].body[1].expr.operand = SelfSession(<<"i","d">>)
    /\ Contains(result.text, <<"t","h","r","o","w"," ","n","e","w"," ","E","r","r","o","r","(","S","t","r","i","n","g","(","s","e","l","f",".","s","e","s","s","i","o","n",".","i","d",")",")",";">>)

-----------------------------------------------------------------------------
(* One instance used for several calls of generate.                        *)

MaxCalls == 2

\* Bodies that are lowered, at one and at two levels of nesting, and
\* bodies that are refused part-way, at one and at two levels.
ReuseBodies ==
    {<<>>, <<Return(Some(IdA))>>, <<ExprStmt(IdA), Return(None)>>,
     <<If(IdA, <<ExprStmt(IdA)>>, None)>>,
     <<If(IdA, <<ExprStmt(IdA)>>, Some(<<Return(None)>>))>>,
     <<While(IdA, <<Break>>)>>, <<ForIn(<<"i">>, IdA, <<ExprStmt(IdA)>>)>>,
     <<While(IdA, <<If(IdA, <<Break>>, None)>>)>>,
     <<ExprStmt(Binary("Range", IdA, IdA))>>,
     <<ExprStmt(IdA), VarDecl(PatObject, Some(IdA))>>,
     <<If(IdA, <<ExprStmt(Think(<<>>))>>, None)>>,
     <<While(IdA, <<If(IdA, <<ExprStmt(Do(<<>>))>>, None)>>)>>}

ReusePrograms ==
    {Program(<<>>)}
        \cup {Program(<<Worker(<<"w">>, <<>>, b)>>) : b \in ReuseBodies}
        \cup {Program(<<Function(<<"f">>, FALSE, <<>>, b)>>) : b \in ReuseBodies}

\* A call of generate on the instance, the first one or a later one.
Generate == \E p \in {q \in ReusePrograms : calls < MaxCalls} : GenerateCall(p)

NextReuse == New \/ Generate

SpecReuse == Init /\ [][NextReuse]_vars

\* The places where the lines of text t start, and the place of the newline
\* that ends the line starting at s (past the text if none does).
LineStarts(t) == {i \in 1..Len(t) : i = 1 \/ t[i - 1] = "\n"}
LineEnd(t, s) ==
    IF \E e \in s..Len(t) : t[e] = "\n"
    THEN CHOOSE e \in s..Len(t) : t[e] = "\n" /\ \A f \in s..(e - 1) : t[f] # "\n"
    ELSE Len(t) + 1

\* The number of spaces the line starting at s starts with.
Lead(t, s) == Cardinality({k \in s..(LineEnd(t, s) - 1) : \A j \in s..k : t[j] = " "})

\* The line starts with a closing brace after its spaces; it ends with an
\* opening brace.
Closes(t, s) == s + Lead(t, s) < LineEnd(t, s) /\ t[s + Lead(t, s)] = "}"
Opens(t, s) == LineEnd(t, s) > s /\ t[LineEnd(t, s) - 1] = "{"

\* The nesting level of the line starting at s: the blocks opened by the
\* lines before it and not closed before it or by it.
Level(t, s) ==
    Cardinality({u \in LineStarts(t) : u < s /\ Opens(t, u)})
        - Cardinality({u \in LineStarts(t) : u <= s /\ Closes(t, u)})

\* Every line of t starts with exactly two spaces per nesting level, and
\* every block of t is closed.
Indented(t) ==
    /\ \A s \in LineStarts(t) : Lead(t, s) = 2 * Level(t, s)
    /\ Cardinality({u \in LineStarts(t) : Opens(t, u)})
           = Cardinality({u \in LineStarts(t) : Closes(t, u)})

\* C24: whenever generate returns a text (without a template literal, whose
\* text may run over lines of its own), each of its lines is prefixed by
\* exactly two spaces per nesting level, the body of a worker or function
\* being level 1 and each enclosing if, else, while or for block adding
\* one, closing braces stand at the level of their statement, and the
\* generator's indentation level is 0 again.
C24_TwoSpacesPerLevel ==
    result.tag = "Ok" /\ ~Contains(result.text, <<"bq">>) =>
        /\ Indented(result.text)
        /\ gen.indent = 0

\* C28: a call of generate returns what a fresh CodeGenerator returns for
\* the same Program, whatever the calls made on the instance before.
C28_NothingCarriesOver == Returned => result = generate(NewGenerator, program).ret

-----------------------------------------------------------------------------
(* The two forms of an emitted string literal.                             *)

\* The parts are exactly one Text part.
OneTextPart(parts) == Len(parts) = 1 /\ parts[1].kind = "Text"

\* C25: the literal emitted for a string literal is in the double-quoted form
\* if its parts are exactly one Text part, and in the backquoted form for
\* every other shape: no parts, one Interpolation part, two or more parts.
C25_PlainIffOneText ==
    CompiledVarS
        => /\ result.tag = "Ok"
           /\ IF OneTextPart(SourceParts)
              THEN Delimited(EmittedLiteral, "\"")
              ELSE Delimited(EmittedLiteral, "bq")

\* C25 witness: two Text parts were emitted in the backquoted form.
C25_Witness ==
    /\ CompiledVarS
    /\ SourceParts = <<Text(<<"a">>), Text(<<"a">>)>>
    /\ EmittedLiteral = <<"bq","a","a","bq">>

\* The shapes other than one Text part that the claim names are all compiled.
C25_NoParts == CompiledVarS /\ SourceParts = <<>> /\ EmittedLiteral = <<"bq","bq">>

-----------------------------------------------------------------------------
(* One bare command in each of the four positions of a command template.   *)

\* The four positions of c, one statement each: a statement, a command
\* substitution, both elements of a chain, the source of a redirect.
FourPositions(c, kind, op) ==
    <<ExprStmt(c),
      VarDecl(PatIdentifier(<<"r","e","s","u","l","t">>), Some(CommandSubst(c))),
      ExprStmt(ShellChain(kind, c, c)),
      ExprStmt(ShellRedirect(c, op, Identifier(<<"f">>)))>>

\* The chains and redirects the command is placed in.
Placements ==
    {<<"ShellPipe", "Out">>, <<"ShellAnd", "Append">>, <<"ShellOr", "ErrToOut">>}

CompilePositions ==
    \E c \in Commands, pl \in Placements :
        Compile(RunCmd(FourPositions(c, pl[1], pl[2])))

NextTemplate == New \/ CompilePositions

SpecTemplate == Init /\ [][NextTemplate]_vars

\* The last call compiled some command in its four positions.
PositionsCompiled ==
    /\ Returned
    /\ \E c \in Commands, pl \in Placements :
           program = RunCmd(FourPositions(c, pl[1], pl[2]))

\* The text between the first "await $shell(" of the returned text and the
\* first ");" + newline: the template of the statement position.
StatementTemplate ==
    LET t == result.text
        from == {i \in 1..Len(t) : StartsWith(SubSeq(t, i, Len(t)), <<"a","w","a","i","t"," ","$","s","h","e","l","l","(">>)}
        i == CHOOSE i \in from : \A j \in from : i <= j
        to == {j \in (i + 13)..Len(t) : StartsWith(SubSeq(t, j, Len(t)), <<")",";","\n">>)}
        j == CHOOSE j \in to : \A k \in to : j <= k
    IN IF result.tag = "Ok" /\ from # {} /\ to # {} THEN SubSeq(t, i + 13, j - 1) ELSE <<>>

ChainCall(kind) ==
    CASE kind = "ShellPipe" -> <<"a","w","a","i","t"," ","$","s","h","e","l","l","P","i","p","e","(","[">>
      [] kind = "ShellAnd" -> <<"a","w","a","i","t"," ","$","s","h","e","l","l","A","n","d","(","[">>
      [] kind = "ShellOr" -> <<"a","w","a","i","t"," ","$","s","h","e","l","l","O","r","(","[">>

OpText(op) ==
    CASE op = "Out" -> <<">">>
      [] op = "Append" -> <<">",">">>
      [] op = "In" -> <<"<">>
      [] op = "ErrOut" -> <<"2",">">>
      [] op = "ErrToOut" -> <<"2",">","&","1">>

\* C29: when one bare command is compiled as a statement, in a command
\* substitution, as the elements of a chain and as the source of a redirect,
\* the template written in the statement is a backquoted text naming the
\* command, and the other three positions hold that same text, character for
\* character.
C29_SameTemplateEverywhere ==
    PositionsCompiled =>
        LET T == StatementTemplate
            kind == program.items[1].body[3].expr.kind
            op == program.items[1].body[4].expr.op
        IN /\ Delimited(T, "bq")
           /\ StartsWith(Inner(T), program.items[1].body[1].expr.name)
           /\ BodyIsLines(<<<<"a","w","a","i","t"," ","$","s","h","e","l","l","(">> \o T \o <<")",";">>,
                            <<"l","e","t"," ","r","e","s","u","l","t"," ","="," ","a","w","a","i","t"," ","$","s","h","e","l","l","(">> \o T \o <<","," ","{","c","a","p","t","u","r","e",":"," ","t","r","u","e","}",")",";">>,
                            ChainCall(kind) \o T \o <<","," ">> \o T \o <<"]",")",";">>,
                            <<"a","w","a","i","t"," ","$","s","h","e","l","l","R","e","d","i","r","e","c","t","(">> \o T \o <<","," ","'">> \o OpText(op)
                                \o <<"'",","," ","f",")",";">>>>)

\* C29 witness: echo "a<backquote>b" -l was compiled in the four positions
\* and its template, the backquote escaped, is the pipe's second element.
C29_Witness ==
    /\ PositionsCompiled
    /\ program.items[1].body[1].expr
          = BareCommand(<<"e","c","h","o">>, <<ArgString(<<Text(<<"a","bq","b">>)>>), ArgLiteral(<<"-","l">>)>>)
    /\ Contains(result.text, <<","," ","bq","e","c","h","o"," ","a","\\","bq","b"," ","-","l","bq","]",")",";">>)

-----------------------------------------------------------------------------
(* Expressions of the lowered operators, and the text read back.           *)

LoweredOps == BinOps \ {"Pipe", "Range"}

Atoms == {Identifier(<<"x">>), Identifier(<<"y">>)}

Postfixes == Atoms \cup {PostIncrement(Identifier(<<"x">>)), PostDecrement(Identifier(<<"x">>))}

OnceUnary == {Unary(op, p) : op \in {"Not", "Neg"}, p \in Postfixes}

Unaries == Postfixes \cup OnceUnary \cup {Unary(op, u) : op \in {"Not", "Neg"}, u \in OnceUnary}

Operands ==
    {Identifier(<<"x">>), Identifier(<<"y">>), Unary("Neg", Identifier(<<"x">>)),
     PostDecrement(Identifier(<<"x">>)),
     Paren(Binary("Add", Identifier(<<"x">>), Identifier(<<"y">>)))}

\* The lexeme of a binary operator of the source language.
LexemeOf(op) == CHOOSE k \in BinaryLexemes : BinOpOf(k) = op

\* The trees the grammar builds without parentheses: operands that bind at
\* least as strongly on the left, more strongly on the right, and the
\* other way round for assignment.
Nested ==
    {Binary(o2, Binary(o1, Identifier(<<"x">>), Identifier(<<"y">>)), Identifier(<<"x">>)) :
        <<o1, o2>> \in {p \in LoweredOps \X LoweredOps :
                           /\ Prec(LexemeOf(p[1])) >= Prec(LexemeOf(p[2]))
                           /\ ~(p[1] = "Assign" /\ p[2] = "Assign")}}
    \cup {Binary(o1, Identifier(<<"x">>), Binary(o2, Identifier(<<"y">>), Identifier(<<"x">>))) :
        <<o1, o2>> \in {p \in LoweredOps \X LoweredOps :
                           \/ Prec(LexemeOf(p[2])) > Prec(LexemeOf(p[1]))
                           \/ p[1] = "Assign" /\ p[2] = "Assign"}}

ShapeExprs ==
    Unaries \cup Nested \cup {Binary(op, l, r) : op \in LoweredOps, l \in Operands, r \in Operands}

\* An expression statement in a worker.
ShapeOf(e) == Program(<<Worker(<<"w">>, <<>>, <<ExprStmt(e)>>)>>)

CompileShape == \E e \in ShapeExprs : Compile(ShapeOf(e))

NextShape == New \/ CompileShape

SpecShape == Init /\ [][NextShape]_vars

\* The last call compiled one expression statement of the lowered operators.
ShapeCompiled == Returned /\ \E e \in ShapeExprs : program = ShapeOf(e)

\* The text of the emitted expression statement, without its semicolon.
EmittedExpr ==
    LET t == result.text
        head == <<"e","x","p","o","r","t"," ","f","u","n","c","t","i","o","n"," ","w","(",")"," ","{","\n"," "," ">>
        foot == <<";","\n","}","\n","\n">>
    IN IF result.tag = "Ok" /\ StartsWith(t, head) /\ EndsWith(t, foot)
       THEN SubSeq(t, Len(head) + 1, Len(t) - Len(foot))
       ELSE <<>>

\* The tokens of a text of the output language, the longest one first:
\* === and !== before the two-character operators, those before the
\* one-character ones; spaces separate tokens.
RECURSIVE JsTokens(_)
JsTokens(s) ==
    IF s = <<>> THEN <<>>
    ELSE IF Head(s) = " " THEN JsTokens(Tail(s))
    ELSE LET n == IF Len(s) >= 3 /\ SubSeq(s, 1, 3) \in {<<"=","=","=">>, <<"!","=","=">>} THEN 3
                  ELSE IF Len(s) >= 2 /\ SubSeq(s, 1, 2) \in {<<"&","&">>, <<"|","|">>, <<"+","+">>, <<"-","-">>}
                       THEN 2
                  ELSE 1
         IN <<SubSeq(s, 1, n)>> \o JsTokens(SubSeq(s, n + 1, Len(s)))

\* The token of the source language that stands for a token of the output.
TokenOf(t) ==
    CASE t = <<"=","=","=">> -> CodeToken("==")
      [] t = <<"!","=","=">> -> CodeToken("!=")
      [] t = <<"&","&">> -> CodeToken("&&")
      [] t = <<"|","|">> -> CodeToken("||")
      [] OTHER -> CodeToken(t[1])

\* The reader's move on a token of the output: ++ and -- after an operand
\* are the postfix operators, before one the prefix operators of the output
\* language; every other token moves the reader as the grammar's table says.
Read(st, t) ==
    IF st = Refused THEN Refused
    ELSE IF t \in {<<"+","+">>, <<"-","-">>}
    THEN IF Top(st).f = "Val"
         THEN Append(Pop(st), Val(IF t = <<"+","+">> THEN PostIncrement(Top(st).node)
                                  ELSE PostDecrement(Top(st).node)))
         ELSE IF AtOperand(st)
         THEN Append(st, Un(IF t = <<"+","+">> THEN "PreIncrement" ELSE "PreDecrement"))
         ELSE Refused
    ELSE Shift(st, TokenOf(t))

RECURSIVE ReadFrom(_, _, _)
ReadFrom(st, toks, i) ==
    IF i > Len(toks) THEN st
    ELSE CHOOSE r \in {ReadFrom(s, toks, i + 1) : s \in {Read(st, toks[i])}} : TRUE

NoTree == [kind |-> "None"]

\* The tree of the text of one expression statement, NoTree if it is none.
Reread(text) ==
    LET st == ReadFrom(<<Items(<<>>), Fun("{", <<"f">>), Blk(<<>>, TRUE)>>, JsTokens(text), 1)
        e == IF st = Refused THEN Refused ELSE Ended(st)
    IN IF e # Refused /\ Top(e).f = "Block" /\ Len(Top(e).stmts) = 1
          /\ Top(e).stmts[1].kind = "Expr"
       THEN Top(e).stmts[1].expr
       ELSE NoTree

\* C30: the text emitted for an expression of the lowered operators that the
\* grammar can build, cut into tokens by longest match and read with the
\* precedence table, gives the tree it was emitted from.
C30_ShapePreserved ==
    ShapeCompiled
        => /\ result.tag = "Ok"
           /\ Reread(EmittedExpr) = program.items[1].body[1].expr

\* A negation applied to a negation.
NegatedNegation(e) ==
    /\ e.kind = "Unary" /\ e.op = "Neg"
    /\ e.operand.kind = "Unary" /\ e.operand.op = "Neg"

\* The same, for the expressions other than a negation applied to a negation.
C30_ButNegatedNegation ==
    (ShapeCompiled /\ ~NegatedNegation(program.items[1].body[1].expr))
        => /\ result.tag = "Ok"
           /\ Reread(EmittedExpr) = program.items[1].body[1].expr

-----------------------------------------------------------------------------
(* The interpreter of crates/patchwork-eval (src/interpreter.rs): eval      *)
(* parses the code with the parser's parse() and ends in Return or Throw;   *)
(* resume is a stub that refuses every state but Yield.                     *)

\* patchwork_parser::parse(code) as one call: the tokens are pulled until
\* the parser refuses one, the lexer fails or the input ends.  n tokens have
\* been taken.  (Each token and each stack is computed once, as the one
\* element of a set.)
RECURSIVE ParseFrom(_, _, _, _)
ParseFrom(src, lx, st, n) ==
    IF lx.pos > Len(src)
    THEN IF Accepts(st) THEN ParseOk(Program(Top(st).items))
         ELSE ParseErr(UnexpectedToken("UnrecognizedEof", n + 1))
    ELSE CHOOSE r \in
            {IF t.tok.kind = "Malformed" THEN ParseErr(UnexpectedToken("User", lx.pos))
             ELSE CHOOSE q \in
                     {IF s = Refused THEN ParseErr(UnexpectedToken("UnrecognizedToken", n + 1))
                      ELSE ParseFrom(src, t.lexer, s, n + 1) :
                         s \in {Shift(st, t.tok)}} : TRUE :
                t \in {try_next(lx, src)}} : TRUE

patchwork_parser_parse(code) == ParseFrom(code, lex_str, ProgramParser, 0)

\* The call agrees with parse() taken token by token.
ParseAgrees == parsed # NoParse => parsed = patchwork_parser_parse(source)

\* format!("{:?}", e) of a parse error: the variant's name and, in
\* parentheses and quotes, the text it carries.
Debug(e) == <<e.kind, "(", "\"", e.of, e.at, "\"", ")">>

Ok(v) == [tag |-> "Ok", value |-> v]
Err(e) == [tag |-> "Err", err |-> e]

\* eval leaving the state as it is when the code does not parse.
Interpreter_eval_state_kept(self, code) ==
    CHOOSE after \in
        {IF r.tag = "Ok"
         THEN [self |-> [self EXCEPT !.state = ControlState_Return(Value_Null)],
               ret |-> Ok(ControlState_Return(Value_Null))]
         ELSE [self |-> self, ret |-> Err(Error_Parse(Debug(r.err)))] :
            r \in {patchwork_parser_parse(code)}} : TRUE

\* Interpreter::eval(&mut self, code): the interpreter after the call and
\* what the call returns.
Interpreter_eval(self, code) ==
    CHOOSE after \in
        {IF r.tag = "Ok"
         THEN [self |-> [self EXCEPT !.state = ControlState_Return(Value_Null)],
               ret |-> Ok(ControlState_Return(Value_Null))]
         ELSE [self |-> [self EXCEPT !.state = ControlState_Throw(Value_String(Debug(r.err)))],
               ret |-> Err(Error_Parse(Debug(r.err)))] :
            r \in {patchwork_parser_parse(code)}} : TRUE

\* resume starting the interpreter over when it refuses.
Interpreter_resume_restarting(self, value) ==
    IF ~is_yield(self.state)
    THEN [self |-> Interpreter_new, ret |-> Err(Error_InvalidResume)]
    ELSE [self |-> self, ret |-> Err(Error_Runtime("resume not yet implemented"))]

\* Interpreter::resume(&mut self, value).
Interpreter_resume(self, value) ==
    IF ~is_yield(self.state)
    THEN [self |-> self, ret |-> Err(Error_InvalidResume)]
    ELSE [self |-> self, ret |-> Err(Error_Runtime("resume not yet implemented"))]

\* The codes handed to eval: the empty program, a function with an empty
\* body, functions of one expression, and sources the front end refuses.
EvalCodes ==
    {<<>>, InFun(<<>>)}
    \cup {InFun(e) : e \in MixedExprs}
    \cup {InFun(<<"x", op, "y">>) : op \in BinaryLexemes}
    \cup {[s EXCEPT ![i] = l] : s \in SoundSources, i \in 1..12, l \in {"@", ")", "fun"}}

\* let mut interp = Interpreter::new()
new ==
    /\ outcome # NoCall
    /\ interp' = Interpreter_new
    /\ outcome' = NoCall
    /\ UNCHANGED <<gen, program, result, calls, front, proxy>>

\* interp.eval(code)
eval ==
    \E code \in EvalCodes :
        \E after \in {Interpreter_eval(interp, code)} :
            /\ interp' = after.self
            /\ outcome' = [op |-> "eval", code |-> code, ret |-> after.ret,
                           evaluated |-> TRUE]
            /\ UNCHANGED <<gen, program, result, calls, front, proxy>>

\* interp.resume(value)
resume ==
    \E value \in {Value_Null, Value_String(<<"x">>)} :
        /\ interp' = Interpreter_resume(interp, value).self
        /\ outcome' = [op |-> "resume", code |-> <<>>,
                       ret |-> Interpreter_resume(interp, value).ret,
                       evaluated |-> outcome.evaluated]
        /\ UNCHANGED <<gen, program, result, calls, front, proxy>>

NextEval == new \/ eval \/ resume

SpecEval == Init /\ [][NextEval]_vars

\* C21: a resume call on an interpreter that is not in Yield returns the
\* InvalidResume error and leaves the control state as it was.
C21_InvalidResume ==
    [][(outcome'.op = "resume" /\ ~is_yield(interp.state))
          => /\ outcome'.ret = Err(Error_InvalidResume)
             /\ interp'.state = interp.state]_vars

\* C21 witness: resume on an interpreter just created failed with
\* InvalidResume and the state is Eval.
C21_Witness ==
    /\ outcome.op = "resume"
    /\ ~outcome.evaluated
    /\ outcome.ret = Err(Error_InvalidResume)
    /\ interp.state = ControlState_Eval

\* resume was refused after an eval, and the state is the terminal one eval
\* left.
C21_AfterEval ==
    /\ outcome.op = "resume"
    /\ outcome.evaluated
    /\ outcome.ret = Err(Error_InvalidResume)
    /\ is_terminal(interp.state)

\* The code handed to the last eval call parses.
Parses == patchwork_parser_parse(outcome.code).tag = "Ok"

C22_ThenResumed ==
    /\ outcome.op = "resume"
    /\ outcome.evaluated
    /\ interp.state.tag = "Throw"

\* eval of the empty program returned Ok and left Return(Null).
C22_EmptyProgram ==
    /\ outcome.op = "eval"
    /\ outcome.code = <<>>
    /\ outcome.ret = Ok(ControlState_Return(Value_Null))

-----------------------------------------------------------------------------
(* do blocks: in a prompt block, and standing alone.                        *)

DoBodies == {<<>>, <<"y">>, <<"var", "x", "=", "1">>}

\* The lexemes a standalone do block is put after, in a function body and
\* at the level of the items: as a statement, an initializer, an operand, a
\* returned value, after a prompt block that is closed, and in the code of a
\* do block of a prompt.
DoContexts ==
    {<<>>, <<"var", "x", "=">>, <<"x", "+">>, <<"return">>, <<"-">>, <<"(">>,
     <<"var", "x", "=", "think", "{", "a", "}", "\n">>,
     <<"var", "x", "=", "think", "{", "do", "{">>}

\* The sources with a do block standing alone, and the place of its do.
StandaloneDo ==
    {[src |-> InFun(c \o <<"do", "{">> \o b \o <<"}">>), at |-> 5 + Len(c) + 1] :
        c \in DoContexts, b \in DoBodies}
    \cup {[src |-> <<"do", "{">> \o b \o <<"}">>, at |-> 1] : b \in DoBodies}

\* The sources with the do blocks inside prompt blocks only.
EmbeddedDo == {InFun(<<"var", "x", "=">> \o p) : p \in PromptSources(1)}

ParseDo == \E s \in {d.src : d \in StandaloneDo} \cup EmbeddedDo : parse(s)

NextDo == ParseDo \/ NextToken \/ EndOfInput

SpecDo == Init /\ [][NextDo]_vars

\* The items of the prompt blocks that are initializers of the parsed
\* function's statements.
PromptItems ==
    IF parsed # NoParse /\ parsed.tag = "Ok"
    THEN UNION {{it \in {s.init[1].items[i] : i \in 1..Len(s.init[1].items)} : TRUE} :
                   s \in {BodyOf(parsed)[i] : i \in 1..Len(BodyOf(parsed))}}
    ELSE {}

\* C23: parse of a source in which a do block stands outside the items of a
\* prompt block fails with the parse error of the token do; a do block
\* among the items of a prompt block is accepted and is a Code item of the
\* prompt.
C23_StandaloneDoRefused ==
    /\ \A d \in StandaloneDo :
          (source = d.src /\ parsed # NoParse)
              => parsed = ParseErr(UnexpectedToken("UnrecognizedToken", d.at))
    /\ (source \in EmbeddedDo /\ parsed # NoParse)
          => /\ parsed.tag = "Ok"
             /\ Cardinality({i \in 1..(Len(source) - 1) : source[i] = "do" /\ source[i + 1] = "{"})
                   = Cardinality({it \in PromptItems : it.kind = "Code"})

\* C23 witness: var x = do { y } in a function was refused at its do.
C23_Witness ==
    /\ source = InFun(<<"var", "x", "=", "do", "{", "y", "}">>)
    /\ parsed = ParseErr(UnexpectedToken("UnrecognizedToken", 9))

\* think { do it do { y } b } was accepted with its do block as a Code item.
C23_Embedded ==
    /\ source = InFun(<<"var", "x", "=", "think", "{", "do", "it", "do", "{", "y", "}", "b", "}">>)
    /\ parsed # NoParse
    /\ parsed.tag = "Ok"
    /\ \E it \in PromptItems : it.kind = "Code"

-----------------------------------------------------------------------------
(* The ACP proxy of crates/patchwork-acp (src/main.rs).  A prompt request   *)
(* is handled by handle_prompt; the handlers of several requests run        *)
(* concurrently and share the proxy behind a mutex, which a handler holds   *)
(* only while it looks its session up.  The text of a prompt is a sequence  *)
(* of lexemes, blanks included.                                             *)

MaxRequests == 2

ContentText(text) == [kind |-> "Text", text |-> text]
ContentImage == [kind |-> "Image"]

PromptRequest(session_id, prompt) == [session_id |-> session_id, prompt |-> prompt]

Whitespace == {" ", "\n", "\t"}

\* str::trim_start
RECURSIVE trim_start(_)
trim_start(text) ==
    IF text # <<>> /\ Head(text) \in Whitespace THEN trim_start(Tail(text)) ELSE text

\* is_patchwork_code taking a brace anywhere in the text for code.
is_patchwork_code_anywhere(text) == \E i \in 1..Len(text) : text[i] = "{"

is_patchwork_code(text) == trim_start(text) # <<>> /\ Head(trim_start(text)) = "{"

\* extract_prompt_text: the text of the first Text block, None if there is
\* no Text block.
RECURSIVE extract_prompt_text(_)
extract_prompt_text(prompt) ==
    IF prompt = <<>> THEN None
    ELSE IF Head(prompt).kind = "Text" THEN Some(Head(prompt).text)
    ELSE extract_prompt_text(Tail(prompt))

\* Session::new, has_active_evaluation, store_interpreter.
Session_new == [entry |-> TRUE, interpreter |-> None]
has_active_evaluation(session) == session.interpreter # None
store_interpreter(session, interpreter) == [session EXCEPT !.interpreter = Some(interpreter)]

\* get_or_create_session: the sessions with an entry for session_id.
get_or_create_session(sessions, session_id) ==
    IF sessions[session_id].entry THEN sessions
    ELSE [sessions EXCEPT ![session_id] = Session_new]

\* What the proxy answers a request with.
Response(stop_reason) == [kind |-> "Response", stop_reason |-> stop_reason]
ErrorResponse(code, data) == [kind |-> "Error", code |-> code, data |-> data]

\* The lexemes of a text the lexer makes tokens of: it skips the blanks.
Lexemes(text) == SelectSeq(text, LAMBDA l : l \notin {" ", "\t"})

\* The prompts: no block, no Text block, a first Text block that is no
\* code (before one that is), a brace that is not at the start, and code,
\* after an image and blanks and at the very start.
Prompts ==
    {<<>>,
     <<ContentImage>>,
     <<ContentText(<<"x">>), ContentText(<<"{", "}">>)>>,
     <<ContentText(<<"x", " ", "{", "}">>)>>,
     <<ContentImage, ContentText(<<" ", "\n", "{", "}">>)>>,
     <<ContentText(<<"{", "fun", " ", "f", "(", ")", "{", "}", "}">>)>>}

\* A prompt request arrives and its handler is started.
Receive ==
    \E s \in SessionIds, p \in Prompts :
        /\ Len(proxy.handlers) < MaxRequests
        /\ proxy' = [proxy EXCEPT !.handlers =
                        Append(@, [request |-> PromptRequest(s, p), pc |-> "start"])]
        /\ UNCHANGED <<gen, program, result, calls, front, interp, outcome>>

\* handle_prompt up to the end of the block that holds the lock: a request
\* without text or without code is forwarded to the successor; for code the
\* session is looked up, or created, and a session with an active evaluation
\* is answered with an error.
HandlePrompt ==
    \E i \in 1..Len(proxy.handlers) :
        LET h == proxy.handlers[i]
            text == extract_prompt_text(h.request.prompt)
            sessions == get_or_create_session(proxy.sessions, h.request.session_id)
        IN /\ h.pc = "start"
           /\ proxy' =
                IF text = None \/ ~is_patchwork_code(text[1])
                THEN [proxy EXCEPT !.forwarded = Append(@, [id |-> i, request |-> h.request]),
                                   !.handlers[i].pc = "forwarded"]
                ELSE IF has_active_evaluation(sessions[h.request.session_id])
                THEN [proxy EXCEPT
                        !.sessions = sessions,
                        !.responses = Append(@, [id |-> i, from |-> "proxy",
                            body |-> ErrorResponse("invalid_request",
                                        "Patchwork evaluation already in progress")]),
                        !.handlers[i].pc = "done"]
                ELSE [proxy EXCEPT !.sessions = sessions, !.handlers[i].pc = "evaluating"]
           /\ UNCHANGED <<gen, program, result, calls, front, interp, outcome>>

\* The answer to the state eval returned, and whether the interpreter is
\* stored for a resume.
Answer(ret) ==
    IF ret.tag = "Err"
    THEN ErrorResponse("invalid_params", "Patchwork error")
    ELSE CASE ret.value.tag = "Return" -> Response("EndTurn")
           [] ret.value.tag = "Throw" -> ErrorResponse("internal_error", "Patchwork error")
           [] ret.value.tag = "Yield" ->
                ErrorResponse("internal_error", "Think blocks not yet implemented")
           [] ret.value.tag = "Eval" ->
                ErrorResponse("internal_error", "Unexpected Eval state after execution")

\* handle_prompt from Interpreter::new() on: the text is evaluated, without
\* the lock, and the request is answered; an interpreter that yields is
\* stored in the session.
Evaluate ==
    \E i \in {j \in 1..Len(proxy.handlers) : proxy.handlers[j].pc = "evaluating"} :
        \E after \in {Interpreter_eval(Interpreter_new,
                                       Lexemes(extract_prompt_text(
                                                   proxy.handlers[i].request.prompt)[1]))} :
            LET sid == proxy.handlers[i].request.session_id
            IN /\ proxy' = [proxy EXCEPT
                    !.sessions =
                        IF after.ret.tag = "Ok" /\ is_yield(after.ret.value)
                        THEN [get_or_create_session(@, sid) EXCEPT
                                ![sid] = store_interpreter(@, after.self)]
                        ELSE @,
                    !.responses = Append(@, [id |-> i, from |-> "proxy",
                                             body |-> Answer(after.ret)]),
                    !.handlers[i].pc = "done"]
               /\ UNCHANGED <<gen, program, result, calls, front, interp, outcome>>

\* The successor answers a request that was forwarded to it, and its answer
\* goes to the request's sender.
SuccessorAnswers ==
    \E k \in 1..Len(proxy.forwarded) :
        /\ \A r \in 1..Len(proxy.responses) : proxy.responses[r].id # proxy.forwarded[k].id
        /\ proxy' = [proxy EXCEPT !.responses =
                        Append(@, [id |-> proxy.forwarded[k].id, from |-> "successor",
                                   body |-> Response("EndTurn")])]
        /\ UNCHANGED <<gen, program, result, calls, front, interp, outcome>>

NextProxy == Receive \/ HandlePrompt \/ Evaluate \/ SuccessorAnswers

SpecProxy == Init /\ [][NextProxy]_vars

-----------------------------------------------------------------------------
(* What the claims say of the proxy.                                        *)

TextBlocks(prompt) == {i \in 1..Len(prompt) : prompt[i].kind = "Text"}

\* The text of the first Text block of a prompt that has one.
FirstText(prompt) ==
    prompt[CHOOSE i \in TextBlocks(prompt) : \A j \in TextBlocks(prompt) : i <= j].text

\* The places of the text that hold no blank.
Visible(text) == {i \in 1..Len(text) : text[i] \notin Whitespace}

\* The prompt has no Text block, or the first one does not start with an
\* opening brace after its leading blanks.
NotCode(prompt) ==
    \/ TextBlocks(prompt) = {}
    \/ Visible(FirstText(prompt)) = {}
    \/ \E i \in Visible(FirstText(prompt)) :
          /\ \A j \in Visible(FirstText(prompt)) : i <= j
          /\ FirstText(prompt)[i] # "{"

Handlers == 1..Len(proxy.handlers)
Forwards(i) == {k \in 1..Len(proxy.forwarded) : proxy.forwarded[k].id = i}
Answers(i, from) ==
    {r \in 1..Len(proxy.responses) :
        proxy.responses[r].id = i /\ proxy.responses[r].from = from}

\* C26: a prompt request without a Text block, or whose first Text block
\* does not start with an opening brace after leading blanks, is sent to the
\* successor once its handler has run, exactly once and as it came; the
\* proxy does not evaluate it and sends no answer of its own for it, and
\* only requests with code give their session an entry.
C26_ForwardedUnchanged ==
    /\ \A i \in Handlers :
          NotCode(proxy.handlers[i].request.prompt) =>
              /\ proxy.handlers[i].pc \in {"start", "forwarded"}
              /\ Cardinality(Forwards(i)) = IF proxy.handlers[i].pc = "start" THEN 0 ELSE 1
              /\ \A k \in Forwards(i) : proxy.forwarded[k].request = proxy.handlers[i].request
              /\ Answers(i, "proxy") = {}
    /\ \A s \in SessionIds :
          proxy.sessions[s].entry =>
              \E i \in Handlers :
                  /\ ~NotCode(proxy.handlers[i].request.prompt)
                  /\ proxy.handlers[i].request.session_id = s
                  /\ proxy.handlers[i].pc # "start"

\* C26 witness: a request whose second Text block is code, the first not,
\* was forwarded and answered by the successor, and its session has no entry.
C26_Witness ==
    \E i \in Handlers :
        /\ proxy.handlers[i].request.prompt
              = <<ContentText(<<"x">>), ContentText(<<"{", "}">>)>>
        /\ proxy.handlers[i].pc = "forwarded"
        /\ Forwards(i) # {}
        /\ Answers(i, "successor") # {}
        /\ ~proxy.sessions[proxy.handlers[i].request.session_id].entry

\* The handlers that have passed the check of their session and have not
\* answered yet: the evaluations in progress.
Evaluating(s) ==
    {i \in Handlers :
        proxy.handlers[i].pc = "evaluating" /\ proxy.handlers[i].request.session_id = s}

\* Every request with code is answered by the proxy exactly once, when its
\* handler is done, and is never forwarded.
C27_ExactlyOneAnswer ==
    \A i \in Handlers :
        ~NotCode(proxy.handlers[i].request.prompt) =>
            /\ Cardinality(Answers(i, "proxy"))
                  = IF proxy.handlers[i].pc = "done" THEN 1 ELSE 0
            /\ Forwards(i) = {}

\* C27: at most one evaluation of a session is in progress at any time, and
\* every request with code gets exactly one answer.
C27_OneEvaluationPerSession ==
    /\ \A s \in SessionIds : Cardinality(Evaluating(s)) <= 1
    /\ C27_ExactlyOneAnswer

\* No request is ever answered with the error of an evaluation in progress.
C27_NeverRefused ==
    \A r \in 1..Len(proxy.responses) :
        proxy.responses[r].body # ErrorResponse("invalid_request",
                                                "Patchwork evaluation already in progress")


====
